---- MODULE Spec2Model ----
(***************************************************************************)
(* ChromaKnit: the garment recolourer (core/garment_recolor.py), the yarn  *)
(* colour extractor (core/yarn_color_extractor.py) and the colour helpers  *)
(* (core/utils.py), as state machines.                                     *)
(*                                                                         *)
(* An image is a sequence of pixels (the array flattened row by row); a    *)
(* BGR pixel is <<b, g, r>>, an HSV pixel <<h, s, v>>, an RGBA pixel of    *)
(* the segmentation output <<c1, c2, c3, alpha>>.  Python's None is the    *)
(* empty sequence for every buffer (no decoded image has zero pixels).     *)
(* A hex colour string is the sequence of its characters.                  *)
(***************************************************************************)
EXTENDS Integers, Sequences, FiniteSets, TLC

(* ------------------------------ bounds --------------------------------- *)
MaxPixels == 2
MaxColors == 2
MaxYarnPixels == 3
MaxN == 2
(* directories between the output volume and the output file *)
MaxParents == 2
(* direct helper calls: brightness values, and colours of a palette *)
MaxBrightness == 3
MaxPalette == 3
(* HTTP requests in flight at once *)
MaxRequests == 2

None == <<>>

(* pixels a garment photo is made of (BGR) *)
GarmentPixels == { <<0, 0, 0>>, <<128, 64, 32>>, <<0, 1, 255>> }
(* alpha values the segmentation model answers with: background, the faintest
   foreground, opaque *)
AlphaSet == { 0, 1, 255 }
(* target colours a caller passes *)
HexRed == <<"#", "f", "f", "0", "0", "0", "0">>
HexGreen == <<"#", "0", "0", "F", "F", "0", "0">>
HexNavy == <<"#", "0", "0", "0", "0", "8", "0">>
HexSet == { HexRed, HexGreen, HexNavy }

RECURSIVE SeqsUpTo(_, _)
SeqsUpTo(S, n) ==
    IF n = 0 THEN { <<>> }
    ELSE LET shorter == SeqsUpTo(S, n - 1)
         IN  shorter \cup { Append(q, x) : q \in { t \in shorter : Len(t) = n - 1 }, x \in S }

GarmentImages == SeqsUpTo(GarmentPixels, MaxPixels) \ { <<>> }
TargetLists == SeqsUpTo(HexSet, MaxColors)
(* the photos and target lists of the runs that exercise the call protocol *)
ProtocolImages == { << <<128, 64, 32>> >>, << <<0, 0, 0>>, <<0, 1, 255>> >> }
ProtocolTargets == { << >>, << HexRed >>, << HexGreen, HexNavy >> }

Max2(a, b) == IF a >= b THEN a ELSE b
Min2(a, b) == IF a <= b THEN a ELSE b
(* nearest integer of n / d for n >= 0, d > 0 *)
Round(n, d) == (2 * n + d) \div (2 * d)

(* --------------------------- core/utils.py ----------------------------- *)
HexDigits == <<"0", "1", "2", "3", "4", "5", "6", "7", "8", "9", "a", "b", "c", "d", "e", "f">>
UpperDigits == <<"0", "1", "2", "3", "4", "5", "6", "7", "8", "9", "A", "B", "C", "D", "E", "F">>

(* int(c, 16) of one character *)
HexVal(c) ==
    IF \E i \in 1..16 : HexDigits[i] = c
    THEN (CHOOSE i \in 1..16 : HexDigits[i] = c) - 1
    ELSE (CHOOSE i \in 1..16 : UpperDigits[i] = c) - 1

RECURSIVE LStripHash(_)
LStripHash(s) == IF Len(s) > 0 /\ Head(s) = "#" THEN LStripHash(Tail(s)) ELSE s

hex_to_bgr(hex_color) ==
    LET h == LStripHash(hex_color)
        r == 16 * HexVal(h[1]) + HexVal(h[2])
        g == 16 * HexVal(h[3]) + HexVal(h[4])
        b == 16 * HexVal(h[5]) + HexVal(h[6])
    IN  <<b, g, r>>

(* '%02x' of one channel in 0..255 *)
Hex2(c) == << HexDigits[(c \div 16) + 1], HexDigits[(c % 16) + 1] >>

(* rgb_to_hex formatting with '%02X' *)
rgb_to_hex_upper(rgb) ==
    <<"#">> \o << UpperDigits[(rgb[1] \div 16) + 1], UpperDigits[(rgb[1] % 16) + 1],
                 UpperDigits[(rgb[2] \div 16) + 1], UpperDigits[(rgb[2] % 16) + 1],
                 UpperDigits[(rgb[3] \div 16) + 1], UpperDigits[(rgb[3] % 16) + 1] >>

rgb_to_hex(rgb) == <<"#">> \o Hex2(rgb[1]) \o Hex2(rgb[2]) \o Hex2(rgb[3])

(* ---------------- cv2.cvtColor on 8-bit pixels (OpenCV) ---------------- *)
hsv_shift == 12
sdiv_table(i) == IF i = 0 THEN 0 ELSE Round(255 * (2 ^ hsv_shift), i)
hdiv_table180(i) == IF i = 0 THEN 0 ELSE Round(180 * (2 ^ hsv_shift), 6 * i)

(* COLOR_BGR2HSV: H in 0..179, S and V in 0..255, fixed-point as in OpenCV *)
BGR2HSV(p) ==
    LET b == p[1]
        g == p[2]
        r == p[3]
        v == Max2(b, Max2(g, r))
        vmin == Min2(b, Min2(g, r))
        diff == v - vmin
        s == (diff * sdiv_table(v) + 2 ^ (hsv_shift - 1)) \div (2 ^ hsv_shift)
        h0 == IF v = r THEN g - b
              ELSE IF v = g THEN b - r + 2 * diff
              ELSE r - g + 4 * diff
        h1 == (h0 * hdiv_table180(diff) + 2 ^ (hsv_shift - 1)) \div (2 ^ hsv_shift)
        h == IF h1 < 0 THEN h1 + 180 ELSE h1
    IN  <<h, s, v>>

(* COLOR_HSV2BGR: the sector arithmetic of OpenCV, each channel rounded to 8 bits *)
HSV2BGR(q) ==
    LET h == q[1]
        s == q[2]
        v == q[3]
        sector == (h \div 30) % 6
        hm == h % 30
        tab == << v,
                  Round(v * (255 - s), 255),
                  Round(v * (255 * 30 - s * hm), 255 * 30),
                  Round(v * (255 * 30 - s * (30 - hm)), 255 * 30) >>
        sector_data == << <<2, 4, 1>>, <<2, 1, 3>>, <<4, 1, 2>>,
                          <<1, 3, 2>>, <<1, 2, 4>>, <<3, 2, 1>> >>
        sd == sector_data[sector + 1]
    IN  IF s = 0 THEN <<v, v, v>>
        ELSE << tab[sd[1]], tab[sd[2]], tab[sd[3]] >>

cvtColor_BGR2HSV(img) == [ i \in 1..Len(img) |-> BGR2HSV(img[i]) ]
cvtColor_HSV2BGR(img) == [ i \in 1..Len(img) |-> HSV2BGR(img[i]) ]
cvtColor_BGR2RGB(img) == [ i \in 1..Len(img) |-> << img[i][3], img[i][2], img[i][1] >> ]


(* ------------------------------- state --------------------------------- *)
VARIABLES
    (* the garment photo on disk and whether cv2.imread can decode it *)
    garment_file, garment_ok,
    (* GarmentRecolorer fields *)
    image, image_no_bg, mask, recolored_image,
    (* locals of the apply_colors call that has just returned (None after any
       other call): the HSV buffer it converted back to BGR, and its argument *)
    recolored_hsv, applied_targets,
    (* the output path: whether it holds an image file, how many of its parent
       directories exist (counted from the volume down), whether the volume
       accepts new directories and files, and how many directories the last
       save_result call created *)
    out_exists, out_dirs, out_writable, out_made,
    (* the last call on the recolorer and its return value *)
    op, ret,
    (* how each rembg.remove invocation of that call ended, in order *)
    rembg_log,
    (* recolor_garment: the step (1..3) about to run, 0 while not running; its
       argument; the stages it has invoked so far with what they returned *)
    rg_pc, rg_targets, rg_trace

ovars == << out_exists, out_dirs, out_writable, out_made >>

gvars == << garment_file, garment_ok, image, image_no_bg, mask, recolored_image,
            recolored_hsv, applied_targets, ovars, op, ret, rembg_log,
            rg_pc, rg_targets, rg_trace >>

(* the yarn photo on disk and whether cv2.imread can decode it *)
VARIABLES
    yarn_file, yarn_ok,
    (* ColorExtractor fields *)
    n_colors, ex_image, image_rgb, hex_codes, counts,
    (* locals of the extract_dominant_colors call that has just returned (None
       after any other call): the fitted KMeans, and the arguments it was built with *)
    kmeans, fit_args,
    (* the last call on the extractor, its return value, the stages it ran *)
    ex_op, ex_ret, ex_trace,
    (* an earlier successful extraction, on this or on an earlier extractor:
       << photo, n_colors, hex codes returned >> *)
    prev

evars == << yarn_file, yarn_ok, n_colors, ex_image, image_rgb, hex_codes, counts,
            kmeans, fit_args, ex_op, ex_ret, ex_trace, prev >>

(* a direct call of a helper: its name, its arguments, what it returned *)
VARIABLES u_op, u_arg, u_ret

uvars == << u_op, u_arg, u_ret >>

(* the HTTP layer: the requests being served (each with its inputs, its place
   in the handler, the handler's local variables and its response) and the
   directory of temporary files (name -> << file >>, None when there is none) *)
VARIABLES requests, tmp_fs

avars == << requests, tmp_fs >>

RetBool(b) == [ tag |-> IF b THEN "True" ELSE "False", val |-> None ]
RetNone == [ tag |-> "None", val |-> None ]
RetValue(x) == [ tag |-> "value", val |-> x ]
Running == [ tag |-> "running", val |-> None ]
Raised(e) == [ tag |-> "raise", val |-> << e >> ]

(* cv2.imread on the garment path *)
imread_garment == IF garment_ok THEN garment_file ELSE None

(* utils.load_image *)
utils_load_image(decoded) == IF decoded = None THEN None ELSE decoded

(* ------------------------- GarmentRecolorer ---------------------------- *)
(* __init__, for a photo out of the set files *)
GarmentInit(files) ==
    /\ garment_file \in files
    /\ garment_ok \in BOOLEAN
    /\ image = None
    /\ mask = None
    /\ recolored_image = None
    /\ image_no_bg = None
    /\ recolored_hsv = None
    /\ applied_targets = None
    /\ out_exists = FALSE
    /\ out_dirs \in 0..MaxParents
    /\ out_writable \in BOOLEAN
    /\ out_made = 0
    /\ op = "init"
    /\ ret = RetNone
    /\ rembg_log = << >>
    /\ rg_pc = 0
    /\ rg_targets = None
    /\ rg_trace = << >>

NoLocals == recolored_hsv' = None /\ applied_targets' = None

(* load_image: the stage itself; res is what it returns *)
load_image(res) ==
    /\ image' = utils_load_image(imread_garment)
    /\ res = (image' # None)
    /\ NoLocals
    /\ UNCHANGED << image_no_bg, mask, recolored_image >>

(* what rembg.remove can answer for an image: the pixels with an alpha channel *)
RembgOutputs(img) ==
    { [ i \in 1..Len(img) |-> << img[i][1], img[i][2], img[i][3], a[i] >> ] :
        a \in [ 1..Len(img) -> AlphaSet ] }

(* image_no_bg[:, :, 2]: the third channel, not the alpha *)
third_channel(rgba) == [ i \in 1..Len(rgba) |-> rgba[i][3] ]

(* image_no_bg[:, :, 3] *)
AlphaChannel(rgba) == [ i \in 1..Len(rgba) |-> rgba[i][4] ]

(* the stage running has invoked rembg.remove with these outcomes: they open
   the log of a direct call and extend the log of a recolor_garment call *)
RembgCalled(outcomes) ==
    rembg_log' = (IF rg_pc = 0 THEN << >> ELSE rembg_log) \o outcomes

(* remove_background invoking rembg.remove a second time when it raised *)
remove_background_retry(res) ==
    /\ IF image = None
       THEN /\ res = FALSE
            /\ RembgCalled(<< >>)
            /\ UNCHANGED << image_no_bg, mask >>
       ELSE \/ /\ res = TRUE
               /\ \E log \in { << "ok" >>, << "raise", "ok" >> } : RembgCalled(log)
               /\ \E out \in RembgOutputs(image) :
                     /\ image_no_bg' = out
                     /\ mask' = AlphaChannel(out)
            \/ /\ res = FALSE
               /\ RembgCalled(<< "raise", "raise" >>)
               /\ UNCHANGED << image_no_bg, mask >>
    /\ NoLocals
    /\ UNCHANGED << image, recolored_image >>

(* remove_background: rembg.remove either raises or answers an RGBA image *)
remove_background(res) ==
    /\ IF image = None
       THEN /\ res = FALSE
            /\ RembgCalled(<< >>)
            /\ UNCHANGED << image_no_bg, mask >>
       ELSE \/ /\ res = TRUE
               /\ RembgCalled(<< "ok" >>)
               /\ \E out \in RembgOutputs(image) :
                     /\ image_no_bg' = out
                     /\ mask' = AlphaChannel(out)
            \/ /\ res = FALSE
               /\ RembgCalled(<< "raise" >>)
               /\ UNCHANGED << image_no_bg, mask >>
    /\ NoLocals
    /\ UNCHANGED << image, recolored_image >>

(* sorted(hsv_colors, key=lambda x: x[2]): Python's sort is stable *)
RECURSIVE InsertByV(_, _)
InsertByV(sorted, x) ==
    IF sorted = << >> THEN << x >>
    ELSE IF x[3] < sorted[Len(sorted)][3]
         THEN Append(InsertByV(SubSeq(sorted, 1, Len(sorted) - 1), x), sorted[Len(sorted)])
         ELSE Append(sorted, x)

RECURSIVE SortedByV(_)
SortedByV(colors) ==
    IF colors = << >> THEN << >>
    ELSE InsertByV(SortedByV(SubSeq(colors, 1, Len(colors) - 1)), colors[Len(colors)])

(* _hex_colors_to_hsv returning the colours in the caller's order (no sort) *)
hex_colors_to_hsv_unsorted(hex_colors) ==
    [ i \in 1..Len(hex_colors) |-> BGR2HSV(hex_to_bgr(hex_colors[i])) ]

(* _hex_colors_to_hsv with a sort that puts a colour before those of equal value *)
RECURSIVE InsertBeforeEqualV(_, _)
InsertBeforeEqualV(sorted, x) ==
    IF sorted = << >> THEN << x >>
    ELSE IF x[3] <= sorted[Len(sorted)][3]
         THEN Append(InsertBeforeEqualV(SubSeq(sorted, 1, Len(sorted) - 1), x), sorted[Len(sorted)])
         ELSE Append(sorted, x)

RECURSIVE SortedByVUnstable(_)
SortedByVUnstable(colors) ==
    IF colors = << >> THEN << >>
    ELSE InsertBeforeEqualV(SortedByVUnstable(SubSeq(colors, 1, Len(colors) - 1)),
                            colors[Len(colors)])

hex_colors_to_hsv_unstable(hex_colors) ==
    SortedByVUnstable([ i \in 1..Len(hex_colors) |-> BGR2HSV(hex_to_bgr(hex_colors[i])) ])

_hex_colors_to_hsv(hex_colors) ==
    SortedByV([ i \in 1..Len(hex_colors) |-> BGR2HSV(hex_to_bgr(hex_colors[i])) ])

RECURSIVE SeqMin(_)
SeqMin(s) == IF Len(s) = 1 THEN s[1] ELSE Min2(s[1], SeqMin(Tail(s)))
RECURSIVE SeqMax(_)
SeqMax(s) == IF Len(s) = 1 THEN s[1] ELSE Max2(s[1], SeqMax(Tail(s)))

(* ---- np.float32 arithmetic, on the values _get_color_mapping meets ----- *)
(* a float32 value here is mant * 2^-exp, mant of at most 24 bits *)
f32_mantissa_bits == 24

(* round to nearest, ties to even: q with a remainder of rem out of d *)
RoundHalfEven(q, rem, d) ==
    IF 2 * rem > d \/ (2 * rem = d /\ q % 2 = 1) THEN q + 1 ELSE q

(* the leading f32_mantissa_bits bits of a / d (0 < a < d) by long division:
   q quotient bits so far, r the remainder, e the bits produced *)
RECURSIVE F32Quotient(_, _, _, _)
F32Quotient(q, r, d, e) ==
    IF q >= 2 ^ (f32_mantissa_bits - 1) THEN [ mant |-> q, rem |-> r, exp |-> e ]
    ELSE IF 2 * r >= d THEN F32Quotient(2 * q + 1, 2 * r - d, d, e + 1)
         ELSE F32Quotient(2 * q, 2 * r, d, e + 1)

(* float32(a) / float32(d) for integers 0 <= a <= d, d > 0 *)
f32_div(a, d) ==
    IF a = 0 THEN [ mant |-> 0, exp |-> 0 ]
    ELSE IF a = d THEN [ mant |-> 1, exp |-> 0 ]
    ELSE LET x == F32Quotient(0, a, d, 0)
         IN  [ mant |-> RoundHalfEven(x.mant, x.rem, d), exp |-> x.exp ]

(* the bits of p beyond f32_mantissa_bits *)
RECURSIVE ExtraBits(_)
ExtraBits(p) == IF p < 2 ^ f32_mantissa_bits THEN 0 ELSE 1 + ExtraBits(p \div 2)

(* float32 x times the integer n >= 0, rounded to float32 *)
f32_mul(x, n) ==
    LET p == x.mant * n
        s == ExtraBits(p)
    IN  [ mant |-> RoundHalfEven(p \div (2 ^ s), p % (2 ^ s), 2 ^ s), exp |-> x.exp - s ]

(* astype(int) of a float32 x >= 0 *)
f32_to_int(x) == IF x.exp > f32_mantissa_bits THEN 0 ELSE x.mant \div (2 ^ x.exp)

(* (normalized * n).astype(int) for an integer n: towards zero *)
ScaledIndex(normalized, n) ==
    IF n >= 0 THEN f32_to_int(f32_mul(normalized, n))
    ELSE -f32_to_int(f32_mul(normalized, -n))

(* _get_color_mapping rounding the scaled brightness to the nearest index
   (np.rint) where the code truncates *)
get_color_mapping_rounded(brightness_values, num_colors) ==
    IF Len(brightness_values) = 0 THEN << >>
    ELSE LET min_b == SeqMin(brightness_values)
             max_b == SeqMax(brightness_values)
             scaled(k) == f32_mul(f32_div(brightness_values[k] - min_b, max_b - min_b),
                                  Max2(num_colors - 1, 0))
             nearest(x) == IF x.exp > f32_mantissa_bits THEN 0
                           ELSE (2 * x.mant + 2 ^ x.exp) \div (2 ^ (x.exp + 1))
         IN  IF max_b > min_b
             THEN [ k \in 1..Len(brightness_values) |-> nearest(scaled(k)) ]
             ELSE [ k \in 1..Len(brightness_values) |-> 0 ]

(* _get_color_mapping giving the first colours to the brightest pixels *)
get_color_mapping_inverted(brightness_values, num_colors) ==
    IF Len(brightness_values) = 0 THEN << >>
    ELSE LET min_b == SeqMin(brightness_values)
             max_b == SeqMax(brightness_values)
         IN  IF max_b > min_b
             THEN [ k \in 1..Len(brightness_values) |->
                      ScaledIndex(f32_div(max_b - brightness_values[k], max_b - min_b),
                                  num_colors - 1) ]
             ELSE [ k \in 1..Len(brightness_values) |-> 0 ]

(* _get_color_mapping: the brightness values are float32, and so are
   normalized = (b - min) / (max - min) and normalized * (num_colors - 1) *)
_get_color_mapping(brightness_values, num_colors) ==
    IF Len(brightness_values) = 0 THEN << >>
    ELSE LET min_b == SeqMin(brightness_values)
             max_b == SeqMax(brightness_values)
         IN  IF max_b > min_b
             THEN [ k \in 1..Len(brightness_values) |->
                      ScaledIndex(f32_div(brightness_values[k] - min_b, max_b - min_b),
                                  num_colors - 1) ]
             ELSE [ k \in 1..Len(brightness_values) |-> 0 ]

(* np.where(garment_mask): the positions of the garment pixels, in order *)
RECURSIVE Where(_, _)
Where(garment_mask, i) ==
    IF i > Len(garment_mask) THEN << >>
    ELSE IF garment_mask[i] THEN << i >> \o Where(garment_mask, i + 1)
         ELSE Where(garment_mask, i + 1)

(* the loop of _apply_hsv_recoloring from colour color_idx (0-based) on *)
RECURSIVE RecolorLoop(_, _, _, _, _)
RecolorLoop(buf, target_hsv, color_indices, coords, color_idx) ==
    IF color_idx >= Len(target_hsv) THEN buf
    ELSE LET hsv_color == target_hsv[color_idx + 1]
             hit == { coords[k] : k \in { j \in 1..Len(coords) : color_indices[j] = color_idx } }
             next == [ i \in 1..Len(buf) |->
                         IF i \in hit THEN << hsv_color[1], hsv_color[2], buf[i][3] >>
                         ELSE buf[i] ]
         IN  RecolorLoop(next, target_hsv, color_indices, coords, color_idx + 1)

(* _apply_hsv_recoloring writing every channel of the target colour ([:3]) *)
RECURSIVE RecolorLoopAllChannels(_, _, _, _, _)
RecolorLoopAllChannels(buf, target_hsv, color_indices, coords, color_idx) ==
    IF color_idx >= Len(target_hsv) THEN buf
    ELSE LET hsv_color == target_hsv[color_idx + 1]
             hit == { coords[k] : k \in { j \in 1..Len(coords) : color_indices[j] = color_idx } }
             next == [ i \in 1..Len(buf) |-> IF i \in hit THEN hsv_color ELSE buf[i] ]
         IN  RecolorLoopAllChannels(next, target_hsv, color_indices, coords, color_idx + 1)

apply_hsv_recoloring_all_channels(image_hsv, target_hsv, color_indices, garment_mask) ==
    RecolorLoopAllChannels(image_hsv, target_hsv, color_indices, Where(garment_mask, 1), 0)

(* _apply_hsv_recoloring writing the hue alone ([:1]) *)
RECURSIVE RecolorLoopHueOnly(_, _, _, _, _)
RecolorLoopHueOnly(buf, target_hsv, color_indices, coords, color_idx) ==
    IF color_idx >= Len(target_hsv) THEN buf
    ELSE LET hsv_color == target_hsv[color_idx + 1]
             hit == { coords[k] : k \in { j \in 1..Len(coords) : color_indices[j] = color_idx } }
             next == [ i \in 1..Len(buf) |->
                         IF i \in hit THEN << hsv_color[1], buf[i][2], buf[i][3] >> ELSE buf[i] ]
         IN  RecolorLoopHueOnly(next, target_hsv, color_indices, coords, color_idx + 1)

apply_hsv_recoloring_hue_only(image_hsv, target_hsv, color_indices, garment_mask) ==
    RecolorLoopHueOnly(image_hsv, target_hsv, color_indices, Where(garment_mask, 1), 0)

_apply_hsv_recoloring(image_hsv, target_hsv, color_indices, garment_mask) ==
    RecolorLoop(image_hsv, target_hsv, color_indices, Where(garment_mask, 1), 0)

(* self.mask > 0 *)
GarmentMask(m) == [ i \in 1..Len(m) |-> m[i] > 0 ]
(* image_hsv[garment_mask, 2] *)
Brightness(image_hsv, garment_mask) ==
    LET coords == Where(garment_mask, 1)
    IN  [ k \in 1..Len(coords) |-> image_hsv[coords[k]][3] ]

(* the HSV buffer apply_colors builds from the image, the mask and the targets *)
RecoloredHsv(img, m, target_colors) ==
    LET target_hsv_colors == _hex_colors_to_hsv(target_colors)
        image_hsv == cvtColor_BGR2HSV(img)
        garment_mask == GarmentMask(m)
        brightness_values == Brightness(image_hsv, garment_mask)
        color_indices == _get_color_mapping(brightness_values, Len(target_hsv_colors))
    IN  _apply_hsv_recoloring(image_hsv, target_hsv_colors, color_indices, garment_mask)

(* apply_colors guarding with 'and' where the code has 'or' *)
apply_colors_and_guard(target_colors, res) ==
    IF image = None /\ mask = None
    THEN /\ res = FALSE
         /\ NoLocals
         /\ UNCHANGED << image, image_no_bg, mask, recolored_image >>
    ELSE /\ res = TRUE
         /\ recolored_hsv' = RecoloredHsv(image, mask, target_colors)
         /\ recolored_image' = cvtColor_HSV2BGR(recolored_hsv')
         /\ applied_targets' = << target_colors >>
         /\ UNCHANGED << image, image_no_bg, mask >>

(* apply_colors working on the result of the previous call when there is one *)
apply_colors_on_previous_result(target_colors, res) ==
    IF image = None \/ mask = None
    THEN /\ res = FALSE
         /\ NoLocals
         /\ UNCHANGED << image, image_no_bg, mask, recolored_image >>
    ELSE /\ res = TRUE
         /\ recolored_hsv' = RecoloredHsv(IF recolored_image # None THEN recolored_image
                                          ELSE image, mask, target_colors)
         /\ recolored_image' = cvtColor_HSV2BGR(recolored_hsv')
         /\ applied_targets' = << target_colors >>
         /\ UNCHANGED << image, image_no_bg, mask >>

(* apply_colors recolouring the loaded image itself: self.image is replaced
   by the result as well *)
apply_colors_in_place(target_colors, res) ==
    IF image = None \/ mask = None
    THEN /\ res = FALSE
         /\ NoLocals
         /\ UNCHANGED << image, image_no_bg, mask, recolored_image >>
    ELSE /\ res = TRUE
         /\ recolored_hsv' = RecoloredHsv(image, mask, target_colors)
         /\ recolored_image' = cvtColor_HSV2BGR(recolored_hsv')
         /\ image' = recolored_image'
         /\ applied_targets' = << target_colors >>
         /\ UNCHANGED << image_no_bg, mask >>

apply_colors(target_colors, res) ==
    IF image = None \/ mask = None
    THEN /\ res = FALSE
         /\ NoLocals
         /\ UNCHANGED << image, image_no_bg, mask, recolored_image >>
    ELSE /\ res = TRUE
         /\ recolored_hsv' = RecoloredHsv(image, mask, target_colors)
         /\ recolored_image' = cvtColor_HSV2BGR(recolored_hsv')
         /\ applied_targets' = << target_colors >>
         /\ UNCHANGED << image, image_no_bg, mask >>

(* the output directories exist and the volume takes the file *)
OutputReady == out_dirs = MaxParents /\ out_writable

(* Path.mkdir() of the parent alone, without parents=True: raises when the
   parent exists (no exist_ok) or when a directory above it is missing *)
mkdir_no_parents ==
    IF out_dirs = MaxParents - 1 /\ out_writable
    THEN [ raised |-> FALSE, dirs |-> MaxParents ]
    ELSE [ raised |-> TRUE, dirs |-> out_dirs ]

(* output_path.parent.mkdir(parents=True, exist_ok=True): whether it raised
   (OSError: the volume refuses the directory) and the directories there are then *)
mkdir_parents ==
    IF out_dirs = MaxParents THEN [ raised |-> FALSE, dirs |-> out_dirs ]
    ELSE IF out_writable THEN [ raised |-> FALSE, dirs |-> MaxParents ]
    ELSE [ raised |-> TRUE, dirs |-> out_dirs ]

(* cv2.imwrite: whether it wrote the file; False when it cannot open it *)
imwrite(dirs) == out_writable /\ dirs = MaxParents

(* save_result: r is what the call ends with, a bool or an exception *)
save_result(r) ==
    IF recolored_image = None
    THEN /\ r = RetBool(FALSE)
         /\ out_made' = 0
         /\ UNCHANGED << out_exists, out_dirs >>
    ELSE LET made == mkdir_parents
         IN  IF made.raised
             THEN /\ r = Raised("OSError")
                  /\ out_made' = 0
                  /\ UNCHANGED << out_exists, out_dirs >>
             ELSE LET success == imwrite(made.dirs)
                  IN  /\ r = RetBool(success)
                      /\ out_dirs' = made.dirs
                      /\ out_made' = made.dirs - out_dirs
                      /\ out_exists' = (out_exists \/ success)

(* recolor_garment going on to the next step whatever the last one answered *)
recolor_garment_step_no_stop(pc, res) ==
    IF pc = 3 THEN [ next |-> 0, fails |-> ~res ]
    ELSE [ next |-> pc + 1, fails |-> FALSE ]

(* recolor_garment: after step pc answered res, the step to run next (0: the
   call is over) and whether the call returns None *)
recolor_garment_step(pc, res) ==
    IF ~res THEN [ next |-> 0, fails |-> TRUE ]
    ELSE IF pc = 3 THEN [ next |-> 0, fails |-> FALSE ]
    ELSE [ next |-> pc + 1, fails |-> FALSE ]

(* the steps list of recolor_garment *)
steps == << "load_image", "remove_background", "apply_colors" >>

(* ----------------------- calls on the recolorer ------------------------ *)
LoadImage ==
    /\ rg_pc = 0
    /\ \E res \in BOOLEAN :
          /\ load_image(res)
          /\ ret' = RetBool(res)
    /\ op' = "load_image"
    /\ rg_trace' = << >>
    /\ rembg_log' = << >>
    /\ UNCHANGED << garment_file, garment_ok, ovars, rg_pc, rg_targets >>
    /\ UNCHANGED << evars, uvars, avars >>

RemoveBackground ==
    /\ rg_pc = 0
    /\ \E res \in BOOLEAN :
          /\ remove_background(res)
          /\ ret' = RetBool(res)
    /\ op' = "remove_background"
    /\ rg_trace' = << >>
    /\ UNCHANGED << garment_file, garment_ok, ovars, rg_pc, rg_targets >>
    /\ UNCHANGED << evars, uvars, avars >>

ApplyColors(targets) ==
    /\ rg_pc = 0
    /\ \E target_colors \in targets, res \in BOOLEAN :
          /\ apply_colors(target_colors, res)
          /\ ret' = RetBool(res)
    /\ op' = "apply_colors"
    /\ rg_trace' = << >>
    /\ rembg_log' = << >>
    /\ UNCHANGED << garment_file, garment_ok, ovars, rg_pc, rg_targets >>
    /\ UNCHANGED << evars, uvars, avars >>

SaveResult ==
    /\ rg_pc = 0
    /\ \E r \in { RetBool(TRUE), RetBool(FALSE), Raised("OSError") } :
          /\ save_result(r)
          /\ ret' = r
    /\ op' = "save_result"
    /\ rg_trace' = << >>
    /\ rembg_log' = << >>
    /\ NoLocals
    /\ UNCHANGED << garment_file, garment_ok, image, image_no_bg, mask, recolored_image,
                    out_writable, rg_pc, rg_targets >>
    /\ UNCHANGED << evars, uvars, avars >>

RecolorGarmentCall(targets) ==
    /\ rg_pc = 0
    /\ \E target_colors \in targets : rg_targets' = << target_colors >>
    /\ rg_pc' = 1
    /\ rg_trace' = << >>
    /\ op' = "recolor_garment"
    /\ ret' = Running
    /\ rembg_log' = << >>
    /\ NoLocals
    /\ UNCHANGED << garment_file, garment_ok, image, image_no_bg, mask, recolored_image,
                    ovars >>
    /\ UNCHANGED << evars, uvars, avars >>

RecolorGarmentStep ==
    /\ rg_pc \in 1..3
    /\ \E res \in BOOLEAN :
          /\ \/ rg_pc = 1 /\ load_image(res) /\ UNCHANGED rembg_log
             \/ rg_pc = 2 /\ remove_background(res)
             \/ rg_pc = 3 /\ apply_colors(rg_targets[1], res) /\ UNCHANGED rembg_log
          /\ rg_trace' = Append(rg_trace, << steps[rg_pc], res >>)
          /\ LET after == recolor_garment_step(rg_pc, res)
             IN  /\ rg_pc' = after.next
                 /\ rg_targets' = IF after.next = 0 THEN None ELSE rg_targets
                 /\ ret' = IF after.fails THEN RetNone
                           ELSE IF after.next = 0 THEN RetValue(recolored_image')
                           ELSE ret
    /\ UNCHANGED << garment_file, garment_ok, ovars, op >>
    /\ UNCHANGED << evars, uvars, avars >>

(* the photo is deleted from, or put back on, the disk *)
GarmentFileChange ==
    /\ garment_ok' = ~garment_ok
    /\ UNCHANGED << garment_file, image, image_no_bg, mask, recolored_image, recolored_hsv,
                    applied_targets, ovars, op, ret, rembg_log, rg_pc, rg_targets, rg_trace >>
    /\ UNCHANGED << evars, uvars, avars >>

(* --------------------------- ColorExtractor ---------------------------- *)
(* pixels a yarn photo is made of (BGR) *)
YarnPixels == { <<0, 0, 255>>, <<255, 128, 1>>, <<10, 200, 100>> }
YarnImages == SeqsUpTo(YarnPixels, MaxYarnPixels) \ { <<>> }

(* cv2.imread on the yarn path *)
imread_yarn == IF yarn_ok THEN yarn_file ELSE None

(* utils.convert_bgr_to_rgb *)
utils_convert_bgr_to_rgb(img) == IF img = None THEN None ELSE cvtColor_BGR2RGB(img)

(* __init__, for a photo out of files and a colour count out of counts_wanted *)
ExtractorInit(files, counts_wanted) ==
    /\ yarn_file \in files
    /\ yarn_ok \in BOOLEAN
    /\ n_colors \in counts_wanted
    /\ ex_image = None
    /\ image_rgb = None
    /\ hex_codes = None
    /\ counts = None
    /\ kmeans = None
    /\ fit_args = None
    /\ ex_op = "init"
    /\ ex_ret = RetNone
    /\ ex_trace = << >>
    /\ prev = None

(* _preprocess_image: what it returns, the fields it leaves, the stages it ran *)
_preprocess_image ==
    LET loaded == utils_load_image(imread_yarn)
        converted == utils_convert_bgr_to_rgb(loaded)
    IN  IF loaded = None
        THEN [ ok |-> FALSE, image |-> loaded, image_rgb |-> image_rgb,
               trace |-> << "load_image" >> ]
        ELSE [ ok |-> converted # None, image |-> loaded, image_rgb |-> converted,
               trace |-> << "load_image", "convert_bgr_to_rgb" >> ]

(* image_rgb.reshape(-1, 3): the pixels, one row each *)
_reshape_for_clustering(rgb) == rgb

RECURSIVE SumPixels(_, _, _)
SumPixels(pixels, members, i) ==
    IF i > Len(pixels) THEN << 0, 0, 0 >>
    ELSE LET rest == SumPixels(pixels, members, i + 1)
         IN  IF i \in members
             THEN << pixels[i][1] + rest[1], pixels[i][2] + rest[2], pixels[i][3] + rest[3] >>
             ELSE rest

(* the fitted models KMeans(n_clusters=n).fit(pixels) can end in: equal pixels
   share a label, min(n, distinct colours) labels are used, a centre is the
   mean (sum over count) of its pixels, and a data point where it has none *)
KMeansFits(pixels, n) ==
    LET cols == { pixels[i] : i \in 1..Len(pixels) }
        used == Min2(n, Cardinality(cols))
        labelings == { f \in [ cols -> 0..(n - 1) ] :
                         Cardinality({ f[c] : c \in cols }) = used }
        members(f, l) == { i \in 1..Len(pixels) : f[pixels[i]] = l }
    IN  { [ labels_ |-> [ i \in 1..Len(pixels) |-> f[pixels[i]] ],
            cluster_centers_ |->
                [ l \in 1..n |->
                    IF members(f, l - 1) # {}
                    THEN [ sum |-> SumPixels(pixels, members(f, l - 1), 1),
                           cnt |-> Cardinality(members(f, l - 1)) ]
                    ELSE [ sum |-> e[l], cnt |-> 1 ] ] ] :
          f \in labelings, e \in [ 1..n -> cols ] }

(* KMeans(n_clusters, random_state, n_init).fit: with a seed the outcome is a
   function of the data; with random_state None it is any outcome *)
KMeansFit(pixels, n_clusters, random_state, n_init) ==
    IF random_state = None THEN KMeansFits(pixels, n_clusters)
    ELSE { CHOOSE m \in KMeansFits(pixels, n_clusters) : TRUE }

KMeansArgs(n_clusters, random_state, n_init) ==
    [ n_clusters |-> n_clusters, random_state |-> random_state, n_init |-> n_init ]

(* _cluster_colors with random_state left at its default, None *)
cluster_colors_unseeded(pixels) == KMeansArgs(n_colors, None, 10)

(* _cluster_colors: the arguments of its KMeans *)
_cluster_colors(pixels) == KMeansArgs(n_colors, << 42 >>, 10)

RECURSIVE SortedSeq(_)
SortedSeq(S) ==
    IF S = {} THEN << >>
    ELSE LET m == CHOOSE x \in S : \A y \in S : x <= y
         IN  << m >> \o SortedSeq(S \ { m })

(* np.unique(labels, return_counts=True) *)
np_unique(labels) ==
    LET unique_labels == SortedSeq({ labels[i] : i \in 1..Len(labels) })
    IN  [ unique_labels |-> unique_labels,
          counts |-> [ k \in 1..Len(unique_labels) |->
                         Cardinality({ i \in 1..Len(labels) : labels[i] = unique_labels[k] }) ] ]

(* np.argsort(keys), kind 'quicksort': numpy's introsort on the index array
   tosort.  A partition of more than SMALL_QUICKSORT + 1 elements is split
   around the median of its first, middle and last keys; a shorter one is
   sorted by insertion, which keeps equal keys in position order. *)
SMALL_QUICKSORT == 16

Swap(tosort, i, j) ==
    [ k \in 1..Len(tosort) |->
        IF k = i THEN tosort[j] ELSE IF k = j THEN tosort[i] ELSE tosort[k] ]

(* insertion of index x into a sorted run: x goes after every key not above its own *)
RECURSIVE InsertByKey(_, _, _)
InsertByKey(order, keys, x) ==
    IF order = << >> THEN << x >>
    ELSE IF keys[x] < keys[order[Len(order)]]
         THEN Append(InsertByKey(SubSeq(order, 1, Len(order) - 1), keys, x), order[Len(order)])
         ELSE Append(order, x)

(* the insertion sort of the first n indices of run *)
RECURSIVE InsertionSort(_, _, _)
InsertionSort(run, keys, n) ==
    IF n = 0 THEN << >> ELSE InsertByKey(InsertionSort(run, keys, n - 1), keys, run[n])

(* the three conditional swaps that put the median key at pm *)
MedianOfThree(tosort, keys, pl, pm, pr) ==
    LET a == IF keys[tosort[pm]] < keys[tosort[pl]] THEN Swap(tosort, pm, pl) ELSE tosort
        b == IF keys[a[pr]] < keys[a[pm]] THEN Swap(a, pr, pm) ELSE a
    IN  IF keys[b[pm]] < keys[b[pl]] THEN Swap(b, pm, pl) ELSE b

(* do ++pi while v[*pi] < vp *)
RECURSIVE ScanUp(_, _, _, _)
ScanUp(tosort, keys, pi, vp) ==
    IF keys[tosort[pi + 1]] < vp THEN ScanUp(tosort, keys, pi + 1, vp) ELSE pi + 1

(* do --pj while vp < v[*pj] *)
RECURSIVE ScanDown(_, _, _, _)
ScanDown(tosort, keys, pj, vp) ==
    IF vp < keys[tosort[pj - 1]] THEN ScanDown(tosort, keys, pj - 1, vp) ELSE pj - 1

(* the partition loop: indices are exchanged until the scans meet *)
RECURSIVE PartitionLoop(_, _, _, _, _)
PartitionLoop(tosort, keys, pi, pj, vp) ==
    LET i == ScanUp(tosort, keys, pi, vp)
        j == ScanDown(tosort, keys, pj, vp)
    IN  IF i >= j THEN [ tosort |-> tosort, pi |-> i ]
        ELSE PartitionLoop(Swap(tosort, i, j), keys, i, j, vp)

(* aquicksort on positions pl..pr of tosort *)
RECURSIVE aquicksort(_, _, _, _)
aquicksort(tosort, keys, pl, pr) ==
    IF pr - pl > SMALL_QUICKSORT
    THEN LET pm == pl + ((pr - pl) \div 2)
             median == MedianOfThree(tosort, keys, pl, pm, pr)
             vp == keys[median[pm]]
             split == PartitionLoop(Swap(median, pm, pr - 1), keys, pl, pr - 1, vp)
             placed == Swap(split.tosort, split.pi, pr - 1)
         IN  aquicksort(aquicksort(placed, keys, pl, split.pi - 1), keys, split.pi + 1, pr)
    ELSE LET run == InsertionSort(SubSeq(tosort, pl, pr), keys, pr - pl + 1)
         IN  [ k \in 1..Len(tosort) |->
                 IF k >= pl /\ k <= pr THEN run[k - pl + 1] ELSE tosort[k] ]

(* np.argsort(keys): positions (from 1) in ascending key order *)
np_argsort(keys) == aquicksort([ k \in 1..Len(keys) |-> k ], keys, 1, Len(keys))

(* centre.astype(int) *)
AsInt(centre) == << centre.sum[1] \div centre.cnt, centre.sum[2] \div centre.cnt,
                    centre.sum[3] \div centre.cnt >>

(* _sort_by_frequency ordering by np.argsort(counts): ascending *)
sort_by_frequency_ascending(km) ==
    LET u == np_unique(km.labels_)
        sorted_indices == np_argsort(u.counts)
        sorted_labels == [ k \in 1..Len(sorted_indices) |-> u.unique_labels[sorted_indices[k]] ]
    IN  [ counts |-> [ k \in 1..Len(sorted_indices) |-> u.counts[sorted_indices[k]] ],
          hex_codes |-> [ k \in 1..Len(sorted_labels) |->
                            rgb_to_hex(AsInt(km.cluster_centers_[sorted_labels[k] + 1])) ] ]

(* _sort_by_frequency giving a hex code to every centre of the model, in label
   order, also to a centre no pixel is labelled with *)
sort_by_frequency_every_centre(km) ==
    LET u == np_unique(km.labels_)
        sorted_indices == np_argsort([ k \in 1..Len(u.counts) |-> -u.counts[k] ])
    IN  [ counts |-> [ k \in 1..Len(sorted_indices) |-> u.counts[sorted_indices[k]] ],
          hex_codes |-> [ l \in 1..Len(km.cluster_centers_) |->
                            rgb_to_hex(AsInt(km.cluster_centers_[l])) ] ]

(* _sort_by_frequency: the counts and hex_codes it stores *)
_sort_by_frequency(km) ==
    LET u == np_unique(km.labels_)
        sorted_indices == np_argsort([ k \in 1..Len(u.counts) |-> -u.counts[k] ])
        sorted_labels == [ k \in 1..Len(sorted_indices) |-> u.unique_labels[sorted_indices[k]] ]
    IN  [ counts |-> [ k \in 1..Len(sorted_indices) |-> u.counts[sorted_indices[k]] ],
          hex_codes |-> [ k \in 1..Len(sorted_labels) |->
                            rgb_to_hex(AsInt(km.cluster_centers_[sorted_labels[k] + 1])) ] ]

(* extract_dominant_colors going on whatever _preprocess_image answered *)
returns_none_never(ok) == FALSE

(* extract_dominant_colors: 'if not self._preprocess_image(): return None' *)
returns_none_after_preprocess(ok) == ~ok

(* the run now stored in the extractor, if it has one *)
Remembered ==
    IF hex_codes # None THEN << yarn_file, n_colors, hex_codes >> ELSE prev

ExtractDominantColors ==
    LET pre == _preprocess_image
    IN  /\ ex_image' = pre.image
        /\ image_rgb' = pre.image_rgb
        /\ IF returns_none_after_preprocess(pre.ok)
           THEN /\ ex_ret' = RetNone
                /\ ex_trace' = pre.trace
                /\ kmeans' = None
                /\ fit_args' = None
                /\ UNCHANGED << hex_codes, counts >>
           ELSE IF image_rgb' = None
           THEN (* _reshape_for_clustering raises ValueError *)
                /\ ex_ret' = Raised("ValueError")
                /\ ex_trace' = pre.trace \o << "reshape" >>
                /\ kmeans' = None
                /\ fit_args' = None
                /\ UNCHANGED << hex_codes, counts >>
           ELSE LET pixels == _reshape_for_clustering(image_rgb')
                    args == _cluster_colors(pixels)
                IN  /\ fit_args' = << args >>
                    /\ IF args.n_clusters > Len(pixels)
                       THEN (* KMeans.fit raises: fewer samples than clusters *)
                            /\ ex_ret' = Raised("ValueError")
                            /\ ex_trace' = pre.trace \o << "reshape", "cluster" >>
                            /\ kmeans' = None
                            /\ UNCHANGED << hex_codes, counts >>
                       ELSE \E km \in KMeansFit(pixels, args.n_clusters,
                                                args.random_state, args.n_init) :
                            LET sorted == _sort_by_frequency(km)
                            IN  /\ kmeans' = << km >>
                                /\ counts' = sorted.counts
                                /\ hex_codes' = sorted.hex_codes
                                /\ ex_ret' = RetValue(hex_codes')
                                /\ ex_trace' = pre.trace \o
                                      << "reshape", "cluster", "sort", "print" >>
        /\ ex_op' = "extract_dominant_colors"
        /\ prev' = Remembered
        /\ UNCHANGED << yarn_file, yarn_ok, n_colors >>
        /\ UNCHANGED << gvars, uvars, avars >>

(* ColorExtractor.load_image *)
ExLoadImage ==
    /\ ex_image' = utils_load_image(imread_yarn)
    /\ ex_ret' = RetBool(ex_image' # None)
    /\ ex_op' = "load_image"
    /\ ex_trace' = << >>
    /\ kmeans' = None
    /\ fit_args' = None
    /\ UNCHANGED << yarn_file, yarn_ok, n_colors, image_rgb, hex_codes, counts, prev >>
    /\ UNCHANGED << gvars, uvars, avars >>

(* ColorExtractor.convert_bgr_to_rgb *)
ExConvertBgrToRgb ==
    /\ image_rgb' = utils_convert_bgr_to_rgb(ex_image)
    /\ ex_ret' = RetBool(image_rgb' # None)
    /\ ex_op' = "convert_bgr_to_rgb"
    /\ ex_trace' = << >>
    /\ kmeans' = None
    /\ fit_args' = None
    /\ UNCHANGED << yarn_file, yarn_ok, n_colors, ex_image, hex_codes, counts, prev >>
    /\ UNCHANGED << gvars, uvars, avars >>

(* ColorExtractor._reshape_for_clustering called directly: it raises
   ValueError when image_rgb is None, and returns the pixel rows otherwise *)
ExReshapeForClustering ==
    /\ ex_ret' = IF image_rgb = None THEN Raised("ValueError")
                 ELSE RetValue(_reshape_for_clustering(image_rgb))
    /\ ex_op' = "_reshape_for_clustering"
    /\ ex_trace' = << >>
    /\ kmeans' = None
    /\ fit_args' = None
    /\ UNCHANGED << yarn_file, yarn_ok, n_colors, ex_image, image_rgb, hex_codes, counts,
                    prev >>
    /\ UNCHANGED << gvars, uvars, avars >>

(* a second ColorExtractor on the same photo content and count, once this one
   has run *)
NewExtractor ==
    /\ ex_op = "extract_dominant_colors"
    /\ ex_image' = None
    /\ image_rgb' = None
    /\ hex_codes' = None
    /\ counts' = None
    /\ kmeans' = None
    /\ fit_args' = None
    /\ ex_op' = "init"
    /\ ex_ret' = RetNone
    /\ ex_trace' = << >>
    /\ prev' = Remembered
    /\ UNCHANGED << yarn_file, yarn_ok, n_colors >>
    /\ UNCHANGED << gvars, uvars, avars >>

(* the photo is deleted from, or put back on, the disk *)
YarnFileChange ==
    /\ yarn_ok' = ~yarn_ok
    /\ UNCHANGED << yarn_file, n_colors, ex_image, image_rgb, hex_codes, counts,
                    kmeans, fit_args, ex_op, ex_ret, ex_trace, prev >>
    /\ UNCHANGED << gvars, uvars, avars >>

(* ------------------------ direct helper calls -------------------------- *)
(* no helper has been called directly *)
UtilsInit ==
    /\ u_op = "none"
    /\ u_arg = << >>
    /\ u_ret = << >>

(* the two characters of one channel; every hex digit of either case occurs *)
ChannelDigits ==
    { <<"0", "0">>, <<"f", "f">>, <<"F", "F">>, <<"8", "0">>, <<"a", "B">>, <<"C", "d">>,
      <<"1", "e">>, <<"E", "9">>, <<"7", "3">>, <<"2", "4">>, <<"5", "6">>, <<"A", "b">>,
      <<"c", "D">> }
(* hex colour strings, with and without the leading '#' *)
HexStrings ==
    LET six == { r \o g \o b : r \in ChannelDigits, g \in ChannelDigits, b \in ChannelDigits }
    IN  six \cup { <<"#">> \o h : h \in six }

(* hex_to_bgr(hex_color) *)
HexToBgr ==
    /\ \E hex_color \in HexStrings :
          /\ u_arg' = << hex_color >>
          /\ u_ret' = << hex_to_bgr(hex_color) >>
    /\ u_op' = "hex_to_bgr"
    /\ UNCHANGED << gvars, evars, avars >>

(* rgb_to_hex((r, g, b)) on the channels hex_to_bgr has just returned; the
   second argument slot keeps the string they were parsed from *)
RgbToHex ==
    /\ u_op = "hex_to_bgr"
    /\ LET bgr == u_ret[1]
           rgb_tuple == << bgr[3], bgr[2], bgr[1] >>
       IN  /\ u_arg' = << rgb_tuple, u_arg[1] >>
           /\ u_ret' = << rgb_to_hex(rgb_tuple) >>
    /\ u_op' = "rgb_to_hex"
    /\ UNCHANGED << gvars, evars, avars >>

(* brightness values and palette sizes _get_color_mapping is called with *)
BrightnessSet == { 0, 13, 22, 254, 255 }
BrightnessLists == SeqsUpTo(BrightnessSet, MaxBrightness)
PaletteSizes == { 0, 1, 2, 3, 23 }

(* _get_color_mapping(brightness_values, num_colors) *)
GetColorMapping ==
    /\ \E brightness_values \in BrightnessLists, num_colors \in PaletteSizes :
          /\ u_arg' = << brightness_values, num_colors >>
          /\ u_ret' = << _get_color_mapping(brightness_values, num_colors) >>
    /\ u_op' = "_get_color_mapping"
    /\ UNCHANGED << gvars, evars, avars >>

(* _hex_colors_to_hsv(hex_colors) *)
HexColorsToHsv ==
    /\ \E hex_colors \in SeqsUpTo(HexSet, MaxPalette) :
          /\ u_arg' = << hex_colors >>
          /\ u_ret' = << _hex_colors_to_hsv(hex_colors) >>
    /\ u_op' = "_hex_colors_to_hsv"
    /\ UNCHANGED << gvars, evars, avars >>

(* fitted models _sort_by_frequency is called with: the centre of cluster l,
   a colour of its own; labels for the pixels of a photo over MaxN + 1
   clusters; n clusters of one pixel each *)
CentreOf(l) == [ sum |-> << 10 * l, 128, 255 - l >>, cnt |-> 1 ]
FittedModel(labels, n) ==
    [ labels_ |-> labels, cluster_centers_ |-> [ l \in 1..n |-> CentreOf(l - 1) ] ]
TiedSizes == { 17, 18 }
FittedModels ==
    { FittedModel(labels, MaxN + 1) : labels \in SeqsUpTo(0..MaxN, MaxYarnPixels) \ { << >> } }
        \cup { FittedModel([ i \in 1..n |-> i - 1 ], n) : n \in TiedSizes }

(* _sort_by_frequency(kmeans): what it stores in counts and hex_codes *)
SortByFrequency ==
    /\ \E km \in FittedModels :
          /\ u_arg' = << km >>
          /\ u_ret' = << _sort_by_frequency(km) >>
    /\ u_op' = "_sort_by_frequency"
    /\ UNCHANGED << gvars, evars, avars >>

(* ----------------------------- api/main.py ----------------------------- *)
(* names NamedTemporaryFile can give a file *)
TempNames == 1..(2 * MaxRequests)

(* a file: whether it decodes as an image, and its pixels if it does *)
ImageFile(pixels) == [ valid |-> TRUE, pixels |-> pixels ]
EmptyFile == [ valid |-> FALSE, pixels |-> None ]

Existing == { name \in TempNames : tmp_fs[name] # None }

(* a temporary file opened under one fixed name, whatever exists *)
fixed_temp_name(existing) == { 1 }

(* tempfile.NamedTemporaryFile(delete=False): the names the new file can get,
   any name no existing file has *)
NamedTemporaryFile(existing) == TempNames \ existing

(* names a handler still holds in temp_path or output_path *)
Held ==
    { requests[r].temp_path : r \in DOMAIN requests }
        \cup { requests[r].output_path : r \in DOMAIN requests }

(* the names of a set up to a renaming of those no handler holds: every held
   name of the set, and one of the others (the preferred one if it is among
   them, else the least) *)
UpToRenaming(names, preferred) ==
    LET free == names \ Held
    IN  { name \in names :
            \/ name \in Held
            \/ IF preferred \in free THEN name = preferred
               ELSE name \in free /\ \A other \in free : name <= other }

(* cv2.imread on a temporary file *)
imread_tmp(path) ==
    IF tmp_fs[path] # None /\ tmp_fs[path][1].valid THEN tmp_fs[path][1].pixels ELSE None

(* str.strip(): leading and trailing whitespace removed *)
Whitespace == { " ", "\n" }
RECURSIVE LStrip(_)
LStrip(c) == IF Len(c) > 0 /\ Head(c) \in Whitespace THEN LStrip(Tail(c)) ELSE c
RECURSIVE RStrip(_)
RStrip(c) ==
    IF Len(c) > 0 /\ c[Len(c)] \in Whitespace THEN RStrip(SubSeq(c, 1, Len(c) - 1)) ELSE c
Strip(c) == RStrip(LStrip(c))

(* the colors form field: the text of a JSON array of strings, a
   comma-separated text (items: the pieces between the commas), or a text in
   brackets that is no JSON *)
JsonArray(items) == [ format |-> "json", items |-> items ]
CommaSeparated(items) == [ format |-> "csv", items |-> items ]
BadJson == [ format |-> "bad_json", items |-> << >> ]

(* [c.strip() for c in colors_trimmed.split(',') if c.strip()] *)
RECURSIVE StrippedItems(_)
StrippedItems(items) ==
    IF items = << >> THEN << >>
    ELSE IF Strip(Head(items)) = << >> THEN StrippedItems(Tail(items))
         ELSE << Strip(Head(items)) >> \o StrippedItems(Tail(items))

(* the parsing of the colors field: json.loads keeps the strings as they are,
   and raises on a text that is no JSON *)
ParseColors(colors) ==
    IF colors.format = "bad_json" THEN [ raised |-> TRUE, color_list |-> << >> ]
    ELSE IF colors.format = "json" THEN [ raised |-> FALSE, color_list |-> colors.items ]
    ELSE [ raised |-> FALSE, color_list |-> StrippedItems(colors.items) ]

(* '#' and six hex digits, nothing else *)
IsHexColor(c) ==
    /\ Len(c) = 7
    /\ c[1] = "#"
    /\ \A i \in 2..7 : \E d \in 1..16 : HexDigits[d] = c[i] \/ UpperDigits[d] = c[i]

(* hex_pattern.match(c) for r'^#[0-9A-Fa-f]{6}$': '$' matches at the end of
   the string and also just before a newline that ends it *)
hex_pattern_match(c) ==
    \/ IsHexColor(c)
    \/ Len(c) = 8 /\ c[8] = "\n" /\ IsHexColor(SubSeq(c, 1, 7))

(* file.content_type.startswith("image/"), of the content types met here *)
ImageTypes == { "image/jpeg", "image/png" }
ContentTypes == ImageTypes \cup { "text/plain", "" }
IsImageType(content_type) == content_type \in ImageTypes

(* an upload: the bytes, the declared content type, whether file.size is
   above MAX_FILE_SIZE *)
Upload(file, content_type, too_large) ==
    [ file |-> file, content_type |-> content_type, too_large |-> too_large ]

(* ColorExtractor(temp_path, n_colors).extract_dominant_colors(): what the
   call can end with *)
ExtractorOutcomesOf(decoded, n) ==
    LET loaded == utils_load_image(decoded)
    IN  IF loaded = None THEN { RetNone }
        ELSE LET pixels == _reshape_for_clustering(utils_convert_bgr_to_rgb(loaded))
                 args == KMeansArgs(n, << 42 >>, 10)
             IN  IF args.n_clusters > Len(pixels) THEN { Raised("ValueError") }
                 ELSE { RetValue(_sort_by_frequency(km).hex_codes) :
                          km \in KMeansFit(pixels, args.n_clusters, args.random_state,
                                           args.n_init) }

ExtractorOutcomes(path, n) == ExtractorOutcomesOf(imread_tmp(path), n)

(* GarmentRecolorer(temp_path).recolor_garment(color_list): the recolorer the
   call can leave, with the step that answered False ("" when none did) *)
RecolorerOutcomesOf(decoded, color_list) ==
    LET loaded == utils_load_image(decoded)
    IN  IF loaded = None
        THEN { [ failed |-> "load_image", image |-> None, mask |-> None,
                 recolored_image |-> None ] }
        ELSE { [ failed |-> "remove_background", image |-> loaded, mask |-> None,
                 recolored_image |-> None ] }
             \cup
             { [ failed |-> "", image |-> loaded, mask |-> AlphaChannel(out),
                 recolored_image |->
                     cvtColor_HSV2BGR(RecoloredHsv(loaded, AlphaChannel(out), color_list)) ] :
               out \in RembgOutputs(loaded) }

RecolorerOutcomes(path, color_list) == RecolorerOutcomesOf(imread_tmp(path), color_list)

NoRecolorer == [ failed |-> "", image |-> None, mask |-> None, recolored_image |-> None ]
NoResponse == [ status |-> 0, body |-> None ]
HTTPException(status_code) == [ status |-> status_code, body |-> None ]
Success(body) == [ status |-> 200, body |-> << body >> ]

(* a request as it arrives: endpoint, upload, form fields; then the handler's
   locals, and what save_result returned ("" before it has) *)
NewRequest(endpoint, upload, n, colors) ==
    [ endpoint |-> endpoint, file |-> upload.file, content_type |-> upload.content_type,
      too_large |-> upload.too_large, n_colors |-> n, colors |-> colors,
      pc |-> "receive", color_list |-> << >>, temp_path |-> 0, output_path |-> 0,
      recolorer |-> NoRecolorer, save_returned |-> "", image_data |-> None,
      response |-> NoResponse ]

(* no request has arrived, no temporary file exists *)
ApiIdle ==
    /\ requests = << >>
    /\ tmp_fs = [ name \in TempNames |-> None ]

(* in_flight requests being served: request r has an upload out of
   uploads[r], with form fields out of the sets *)
ApiInit(in_flight, uploads, counts_wanted, palettes) ==
    /\ requests \in [ 1..in_flight ->
          UNION { { NewRequest("extract", u, n, CommaSeparated(<< >>)) :
                      u \in uploads[r], n \in counts_wanted }
                  \cup { NewRequest("recolor", u, 0, c) : u \in uploads[r], c \in palettes } :
                  r \in 1..in_flight } ]
    /\ \A r \in 1..in_flight : \E u \in uploads[r] : requests[r].file = u.file
    /\ tmp_fs = [ name \in TempNames |-> None ]

Update(r, fields) ==
    requests' = [ requests EXCEPT ![r] =
                    [ k \in DOMAIN requests[r] |->
                        IF k \in DOMAIN fields THEN fields[k] ELSE requests[r][k] ] ]

(* both endpoints, up to the await on the upload: in recolor_garment the
   colours are parsed and validated; then the file type and the file size are
   checked; then the temporary input file is created *)
ApiReceive(r) ==
    /\ requests[r].pc = "receive"
    /\ LET req == requests[r]
           parsed == IF req.endpoint = "recolor" THEN ParseColors(req.colors)
                     ELSE [ raised |-> FALSE, color_list |-> << >> ]
           color_list == parsed.color_list
           bad_colors ==
               /\ req.endpoint = "recolor"
               /\ \/ parsed.raised
                  \/ color_list = << >>
                  \/ \E i \in 1..Len(color_list) : ~hex_pattern_match(color_list[i])
       IN  IF bad_colors
           THEN /\ Update(r, [ pc |-> "done", response |-> HTTPException(400) ])
                /\ UNCHANGED tmp_fs
           ELSE IF ~IsImageType(req.content_type)
           THEN /\ Update(r, [ pc |-> "done", response |-> HTTPException(400) ])
                /\ UNCHANGED tmp_fs
           ELSE IF req.too_large
           THEN /\ Update(r, [ pc |-> "done", response |-> HTTPException(413) ])
                /\ UNCHANGED tmp_fs
           ELSE \E name \in UpToRenaming(NamedTemporaryFile(Existing), 2 * r - 1) :
                   /\ tmp_fs' = [ tmp_fs EXCEPT ![name] = << EmptyFile >> ]
                   /\ Update(r, [ pc |-> "write", temp_path |-> name,
                                   color_list |-> color_list ])
    /\ UNCHANGED << gvars, evars, uvars >>

(* temp_file.write(contents), after the await *)
ApiWriteUpload(r) ==
    /\ requests[r].pc = "write"
    /\ tmp_fs' = [ tmp_fs EXCEPT ![requests[r].temp_path] = << requests[r].file >> ]
    /\ Update(r, [ pc |-> "pipeline" ])
    /\ UNCHANGED << gvars, evars, uvars >>

(* extract_colors: the extractor is built and run, the response decided *)
ApiExtract(r) ==
    /\ requests[r].pc = "pipeline"
    /\ requests[r].endpoint = "extract"
    /\ \E colors \in ExtractorOutcomes(requests[r].temp_path, requests[r].n_colors) :
          Update(r, [ pc |-> "cleanup",
                      response |-> IF colors.tag = "raise" THEN HTTPException(500)
                                   ELSE IF colors.tag = "None" THEN HTTPException(400)
                                   ELSE Success(colors.val) ])
    /\ UNCHANGED tmp_fs
    /\ UNCHANGED << gvars, evars, uvars >>

(* recolor_garment: the recolorer is built and run *)
ApiRecolor(r) ==
    /\ requests[r].pc = "pipeline"
    /\ requests[r].endpoint = "recolor"
    /\ \E recolorer \in RecolorerOutcomes(requests[r].temp_path, requests[r].color_list) :
          IF recolorer.recolored_image = None
          THEN Update(r, [ pc |-> "cleanup", recolorer |-> recolorer,
                           response |-> HTTPException(400) ])
          ELSE Update(r, [ pc |-> "create_output", recolorer |-> recolorer ])
    /\ UNCHANGED tmp_fs
    /\ UNCHANGED << gvars, evars, uvars >>

(* recolor_garment: the temporary output file is created *)
ApiCreateOutput(r) ==
    /\ requests[r].pc = "create_output"
    /\ \E name \in UpToRenaming(NamedTemporaryFile(Existing), 2 * r) :
          /\ tmp_fs' = [ tmp_fs EXCEPT ![name] = << EmptyFile >> ]
          /\ Update(r, [ pc |-> "save", output_path |-> name ])
    /\ UNCHANGED << gvars, evars, uvars >>

(* recolorer.save_result(output_path): cv2.imwrite writes the image or fails
   and leaves the file; what save_result returns is not looked at *)
ApiSaveResult(r) ==
    /\ requests[r].pc = "save"
    /\ \E success \in BOOLEAN :
          /\ tmp_fs' = IF success
                       THEN [ tmp_fs EXCEPT ![requests[r].output_path] =
                                << ImageFile(requests[r].recolorer.recolored_image) >> ]
                       ELSE tmp_fs
          /\ Update(r, [ pc |-> "read_output", save_returned |-> RetBool(success).tag ])
    /\ UNCHANGED << gvars, evars, uvars >>

(* open(output_path, 'rb').read() *)
ApiReadOutput(r) ==
    /\ requests[r].pc = "read_output"
    /\ IF tmp_fs[requests[r].output_path] = None
       THEN Update(r, [ pc |-> "cleanup", response |-> HTTPException(500) ])
       ELSE Update(r, [ pc |-> "unlink_output",
                        image_data |-> tmp_fs[requests[r].output_path] ])
    /\ UNCHANGED tmp_fs
    /\ UNCHANGED << gvars, evars, uvars >>

(* os.unlink(output_path), and the Response *)
ApiUnlinkOutput(r) ==
    /\ requests[r].pc = "unlink_output"
    /\ IF tmp_fs[requests[r].output_path] = None
       THEN /\ Update(r, [ pc |-> "cleanup", response |-> HTTPException(500) ])
            /\ UNCHANGED tmp_fs
       ELSE /\ tmp_fs' = [ tmp_fs EXCEPT ![requests[r].output_path] = None ]
            /\ Update(r, [ pc |-> "cleanup",
                            response |-> Success(requests[r].image_data[1]) ])
    /\ UNCHANGED << gvars, evars, uvars >>

(* the input file removed at the end of the try block, with no finally: an
   HTTPException or another exception leaves it *)
unlink_without_finally(req) ==
    IF req.response.status = 200 THEN [ tmp_fs EXCEPT ![req.temp_path] = None ] ELSE tmp_fs

(* finally: if os.path.exists(temp_path): os.unlink(temp_path) *)
finally_unlink(req) == [ tmp_fs EXCEPT ![req.temp_path] = None ]

(* the finally block of both handlers; the handler's locals are gone when it
   returns *)
ApiCleanup(r) ==
    /\ requests[r].pc = "cleanup"
    /\ tmp_fs' = finally_unlink(requests[r])
    /\ Update(r, [ pc |-> "done", temp_path |-> 0, output_path |-> 0,
                   recolorer |-> NoRecolorer, save_returned |-> "", image_data |-> None ])
    /\ UNCHANGED << gvars, evars, uvars >>

vars == << gvars, evars, uvars, avars >>

(* the call protocol of a recolorer: every call, in any order *)
Init ==
    /\ GarmentInit(ProtocolImages)
    /\ ExtractorInit({ << <<0, 0, 255>> >> }, { 1 })
    /\ yarn_ok
    /\ UtilsInit
    /\ ApiIdle
Next ==
    \/ LoadImage
    \/ RemoveBackground
    \/ ApplyColors(ProtocolTargets)
    \/ SaveResult
    \/ RecolorGarmentCall(ProtocolTargets)
    \/ RecolorGarmentStep
    \/ GarmentFileChange
Spec == Init /\ [][Next]_vars

(* the recolouring of pixels: the first apply_colors of a recolorer, over every
   photo, mask and target list of the bounds *)
PixelInit ==
    /\ GarmentInit(GarmentImages)
    /\ garment_ok
    /\ OutputReady
    /\ ExtractorInit({ << <<0, 0, 255>> >> }, { 1 })
    /\ yarn_ok
    /\ UtilsInit
    /\ ApiIdle
PixelNext ==
    \/ LoadImage
    \/ RemoveBackground
    \/ recolored_image = None /\ ApplyColors(TargetLists)
PixelSpec == PixelInit /\ [][PixelNext]_vars


(* the extractor: every call, on every photo and colour count of the bounds *)
ExtractInit ==
    /\ ExtractorInit(YarnImages, 1..MaxN)
    /\ GarmentInit({ << <<0, 0, 0>> >> })
    /\ garment_ok
    /\ OutputReady
    /\ UtilsInit
    /\ ApiIdle
ExtractNext ==
    \/ ExtractDominantColors
    \/ ExLoadImage
    \/ ExConvertBgrToRgb
    \/ ExReshapeForClustering
    \/ NewExtractor
    \/ YarnFileChange
ExtractSpec == ExtractInit /\ [][ExtractNext]_vars

(* the helpers called directly, on every argument of the bounds *)
HelperInit ==
    /\ UtilsInit
    /\ ApiIdle
    /\ GarmentInit({ << <<0, 0, 0>> >> })
    /\ garment_ok
    /\ OutputReady
    /\ ExtractorInit({ << <<0, 0, 255>> >> }, { 1 })
    /\ yarn_ok
(* a helper keeps no state: its first call says all a later one would *)
HelperNext ==
    \/ u_op = "none" /\ HexToBgr
    \/ RgbToHex
    \/ u_op = "none" /\ GetColorMapping
    \/ u_op = "none" /\ HexColorsToHsv
    \/ u_op = "none" /\ SortByFrequency
HelperSpec == HelperInit /\ [][HelperNext]_vars

(* the HTTP layer: MaxRequests requests served concurrently, their handlers
   interleaved at every access to the temporary directory *)
(* every request uploads a photo of its own *)
ApiUploads ==
    [ r \in 1..MaxRequests |->
        { Upload(ImageFile(<< << 60 * r, 64, 32 >> >>), "image/jpeg", FALSE) } ]
ApiPalettes == { JsonArray(<< HexRed >>) }
HttpInit ==
    /\ ApiInit(MaxRequests, ApiUploads, { 1 }, ApiPalettes)
    /\ GarmentInit({ << <<0, 0, 0>> >> })
    /\ garment_ok
    /\ OutputReady
    /\ ExtractorInit({ << <<0, 0, 255>> >> }, { 1 })
    /\ yarn_ok
    /\ UtilsInit
HttpNext ==
    \/ \E r \in DOMAIN requests : ApiReceive(r)
    \/ \E r \in DOMAIN requests : ApiWriteUpload(r)
    \/ \E r \in DOMAIN requests : ApiExtract(r)
    \/ \E r \in DOMAIN requests : ApiRecolor(r)
    \/ \E r \in DOMAIN requests : ApiCreateOutput(r)
    \/ \E r \in DOMAIN requests : ApiSaveResult(r)
    \/ \E r \in DOMAIN requests : ApiReadOutput(r)
    \/ \E r \in DOMAIN requests : ApiUnlinkOutput(r)
    \/ \E r \in DOMAIN requests : ApiCleanup(r)
HttpSpec == HttpInit /\ [][HttpNext]_vars

(* the HTTP layer, one request served alone: every kind of upload (a photo or
   bytes that are no image, any content type, either size) and of form *)
RequestUploads ==
    { Upload(file, content_type, too_large) :
        file \in { ImageFile(<< << 60, 64, 32 >> >>), EmptyFile },
        content_type \in ContentTypes,
        too_large \in BOOLEAN }
RequestPalettes ==
    { JsonArray(<< HexRed >>),
      JsonArray(<< HexRed \o << "\n" >> >>),
      JsonArray(<< HexGreen, << "r", "e", "d" >> >>),
      JsonArray(<< >>),
      BadJson,
      CommaSeparated(<< HexRed \o << "\n" >>, << " " >>, << " " >> \o HexNavy >>),
      CommaSeparated(<< << "#", "f", "f" >> >>),
      CommaSeparated(<< << " " >> >>) }
RequestInit ==
    /\ ApiInit(1, [ r \in { 1 } |-> RequestUploads ], { 1, 2 }, RequestPalettes)
    /\ GarmentInit({ << <<0, 0, 0>> >> })
    /\ garment_ok
    /\ OutputReady
    /\ ExtractorInit({ << <<0, 0, 255>> >> }, { 1 })
    /\ yarn_ok
    /\ UtilsInit
RequestSpec == RequestInit /\ [][HttpNext]_vars

(* ======================= claims: GarmentRecolorer ======================= *)

AllTrue(trace) == \A i \in 1..Len(trace) : trace[i][2] = TRUE

(* C1: a stage called without its prerequisite returns False and populates no
   buffer: remove_background with no image loaded leaves image_no_bg and mask
   as they are (None before any success); apply_colors with the image or the
   mask missing leaves recolored_image as it is; save_result with no recolored
   image writes nothing. *)
C1_StageWithoutPrerequisite ==
    [][ /\ (RemoveBackground /\ image = None)
            => (ret' = RetBool(FALSE) /\ image_no_bg' = image_no_bg /\ mask' = mask)
        /\ (ApplyColors(ProtocolTargets) /\ (image = None \/ mask = None))
            => (ret' = RetBool(FALSE) /\ recolored_image' = recolored_image)
        /\ (SaveResult /\ recolored_image = None)
            => (ret' = RetBool(FALSE) /\ out_exists' = out_exists) ]_vars

C1_Witness ==
    /\ op = "apply_colors"
    /\ ret = RetBool(FALSE)
    /\ image # None
    /\ mask = None
    /\ recolored_image = None

(* C2: recolor_garment invokes load_image, remove_background, apply_colors in
   that order, each at most once, a stage only after every earlier one returned
   True; it returns None as soon as a stage returns False, and the recolored
   image only when all three returned True. *)
C2_PipelineStopsAtFirstFailure ==
    op = "recolor_garment" =>
        /\ Len(rg_trace) <= 3
        /\ \A i \in 1..Len(rg_trace) : rg_trace[i][1] = steps[i]
        /\ AllTrue(SubSeq(rg_trace, 1, Len(rg_trace) - 1))
        /\ rg_pc # 0 => (ret = Running /\ AllTrue(rg_trace) /\ rg_pc = Len(rg_trace) + 1)
        /\ rg_pc = 0 =>
              /\ Len(rg_trace) >= 1
              /\ ~AllTrue(rg_trace) => ret = RetNone
              /\ AllTrue(rg_trace) =>
                    (Len(rg_trace) = 3 /\ ret = RetValue(recolored_image) /\ recolored_image # None)

C2_Witness ==
    /\ op = "recolor_garment"
    /\ rg_pc = 0
    /\ ret = RetNone
    /\ rg_trace = << << "load_image", TRUE >>, << "remove_background", FALSE >> >>

(* apply_colors has just returned True *)
Applied == op = "apply_colors" /\ ret = RetBool(TRUE)

(* C3: every garment pixel (mask > 0) keeps its brightness: the value channel
   of the recoloured pixel, read back from recolored_image, equals the value
   channel of the loaded pixel, for any non-empty target list. *)
C3_BrightnessPreserved ==
    (Applied /\ applied_targets[1] # << >>) =>
        \A i \in 1..Len(image) :
            mask[i] > 0 => BGR2HSV(recolored_image[i])[3] = BGR2HSV(image[i])[3]

C3_Witness ==
    /\ Applied
    /\ applied_targets[1] # << >>
    /\ \E i \in 1..Len(image) : mask[i] > 0 /\ recolored_image[i] # image[i]

(* C4: as claimed: a background pixel (mask = 0) keeps hue, saturation and
   value, and is in recolored_image the pixel of the loaded image. *)
C4_BackgroundPixelUnchanged ==
    Applied =>
        \A i \in 1..Len(image) :
            mask[i] = 0 =>
                /\ recolored_hsv[i] = BGR2HSV(image[i])
                /\ recolored_image[i] = image[i]

(* the bucket of the k-th garment pixel in the call that has just returned *)
AppliedTargetHsv == _hex_colors_to_hsv(applied_targets[1])
AppliedCoords == Where(GarmentMask(mask), 1)
AppliedIndices ==
    _get_color_mapping(Brightness(cvtColor_BGR2HSV(image), GarmentMask(mask)),
                       Len(AppliedTargetHsv))

(* C5, as claimed: every garment pixel of recolored_image has exactly the hue
   and saturation of the target colour of its bucket. *)
C5_ExactHueSaturationInImage ==
    (Applied /\ applied_targets[1] # << >>) =>
        \A k \in 1..Len(AppliedCoords) :
            LET target == AppliedTargetHsv[AppliedIndices[k] + 1]
                after == BGR2HSV(recolored_image[AppliedCoords[k]])
            IN  after[1] = target[1] /\ after[2] = target[2]

(* C5, amended: in the HSV buffer that apply_colors converts back to BGR every
   garment pixel has exactly the hue and saturation of the target colour of its
   bucket (with one target colour: of that colour) and its own brightness, and
   its pixel in recolored_image is the BGR conversion of that triple. *)
C5_ExactHueSaturationInHsvBuffer ==
    (Applied /\ applied_targets[1] # << >>) =>
        \A k \in 1..Len(AppliedCoords) :
            LET i == AppliedCoords[k]
                target == AppliedTargetHsv[AppliedIndices[k] + 1]
            IN  /\ AppliedIndices[k] \in 0..(Len(AppliedTargetHsv) - 1)
                /\ Len(AppliedTargetHsv) = 1 => target = BGR2HSV(hex_to_bgr(applied_targets[1][1]))
                /\ recolored_hsv[i] = << target[1], target[2], BGR2HSV(image[i])[3] >>
                /\ recolored_image[i] = HSV2BGR(<< target[1], target[2], BGR2HSV(image[i])[3] >>)

C5_Witness ==
    /\ Applied
    /\ Len(applied_targets[1]) = 2
    /\ Len(AppliedCoords) = 2
    /\ AppliedIndices = << 1, 0 >>
    /\ AppliedTargetHsv[1] # AppliedTargetHsv[2]

(* the permutations of a sequence *)
Perms(seq) ==
    { [ i \in 1..Len(seq) |-> seq[f[i]] ] :
        f \in { g \in [ 1..Len(seq) -> 1..Len(seq) ] :
                  \A a, b \in 1..Len(seq) : a # b => g[a] # g[b] } }

RecoloredImageFor(target_colors) == cvtColor_HSV2BGR(RecoloredHsv(image, mask, target_colors))

(* C6, as claimed: the recolored image is the same for every permutation of
   the target list, also when two targets have equal brightness. *)
C6_AnyOrderSameImage ==
    Applied => \A q \in Perms(applied_targets[1]) : RecoloredImageFor(q) = recolored_image

(* any two targets of equal brightness are the same HSV colour *)
EqualBrightnessSameColour(target_colors) ==
    LET hsv == [ i \in 1..Len(target_colors) |-> BGR2HSV(hex_to_bgr(target_colors[i])) ]
    IN  \A a, b \in 1..Len(hsv) : hsv[a][3] = hsv[b][3] => hsv[a] = hsv[b]

(* C6, amended: the recolored image is the same for every permutation of a
   target list in which no two different colours have equal brightness. *)
C6_DistinctBrightnessAnyOrderSameImage ==
    (Applied /\ EqualBrightnessSameColour(applied_targets[1])) =>
        \A q \in Perms(applied_targets[1]) : RecoloredImageFor(q) = recolored_image

C6_Witness ==
    /\ Applied
    /\ applied_targets[1] = << HexRed, HexNavy >>
    /\ \E i \in 1..Len(mask) : mask[i] > 0
    /\ recolored_image # image


(* ======================== claims: ColorExtractor ======================== *)

(* extract_dominant_colors has just returned its hex codes *)
Extracted == ex_op = "extract_dominant_colors" /\ ex_ret.tag = "value"

(* '#' and six lowercase hex digits *)
IsLowerHexCode(h) ==
    /\ Len(h) = 7
    /\ h[1] = "#"
    /\ \A i \in 2..7 : \E d \in 1..16 : HexDigits[d] = h[i]

(* C7, as claimed: when the image loads and 1 <= N <= number of pixels,
   extract_dominant_colors returns exactly N strings, each '#' and six
   lowercase hex digits, also when the image has fewer than N distinct colours. *)
C7_ExactlyNHexCodes ==
    (ex_op = "extract_dominant_colors" /\ ex_image # None /\ n_colors <= Len(ex_image)) =>
        /\ ex_ret.tag = "value"
        /\ Len(ex_ret.val) = n_colors
        /\ \A i \in 1..Len(ex_ret.val) : IsLowerHexCode(ex_ret.val[i])

(* C8: the palette is ordered by descending pixel count: counts never
   increases, and hex_codes[i] is the hex code of the centroid of a cluster of
   counts[i] pixels, a different cluster for every i. *)
C8_DescendingFrequency ==
    Extracted =>
        /\ ex_ret.val = hex_codes
        /\ Len(hex_codes) = Len(counts)
        /\ \A i \in 1..(Len(counts) - 1) : counts[i] >= counts[i + 1]
        /\ \E f \in [ 1..Len(counts) -> 0..(n_colors - 1) ] :
              /\ \A a, b \in 1..Len(counts) : a # b => f[a] # f[b]
              /\ \A i \in 1..Len(counts) :
                    /\ counts[i] = Cardinality({ q \in 1..Len(kmeans[1].labels_) :
                                                   kmeans[1].labels_[q] = f[i] })
                    /\ hex_codes[i] = rgb_to_hex(AsInt(kmeans[1].cluster_centers_[f[i] + 1]))

C8_Witness ==
    /\ Extracted
    /\ Len(counts) = 2
    /\ counts[1] > counts[2]
    /\ hex_codes[1] # hex_codes[2]

(* C9: extraction is deterministic: a run on the same photo content with the
   same N as an earlier run, on this extractor or on an earlier one, returns
   the same ordered hex codes; the clustering is always built with seed 42 and 10 restarts. *)
C9_Deterministic ==
    /\ fit_args # None => (fit_args[1].random_state = << 42 >> /\ fit_args[1].n_init = 10)
    /\ (Extracted /\ prev # None /\ prev[1] = yarn_file /\ prev[2] = n_colors)
          => prev[3] = hex_codes

C9_Witness ==
    /\ Extracted
    /\ prev # None
    /\ prev[1] = yarn_file
    /\ prev[2] = n_colors
    /\ Len(hex_codes) = 2
    /\ counts[1] = counts[2]

(* C10: when the photo cannot be loaded extract_dominant_colors returns None
   without raising, runs no stage after the load, and leaves image_rgb,
   hex_codes and counts as they were (None on a fresh extractor). *)
C10_LoadFailureNoPartialOutput ==
    [][ (ExtractDominantColors /\ imread_yarn = None) =>
            /\ ex_ret' = RetNone
            /\ ex_trace' = << "load_image" >>
            /\ ex_image' = None
            /\ image_rgb' = image_rgb
            /\ hex_codes' = hex_codes
            /\ counts' = counts ]_vars

C10_Witness ==
    /\ ex_op = "extract_dominant_colors"
    /\ ex_ret = RetNone
    /\ ex_trace = << "load_image" >>
    /\ image_rgb = None
    /\ hex_codes = None
    /\ counts = None


(* ============================ claims: helpers ============================ *)

(* str.lower() of a hex colour string *)
ToLower(h) ==
    [ i \in 1..Len(h) |->
        IF \E d \in 1..16 : UpperDigits[d] = h[i]
        THEN HexDigits[CHOOSE d \in 1..16 : UpperDigits[d] = h[i]]
        ELSE h[i] ]

(* C11: hex round trip: hex_to_bgr of '#' and six hex digits of any case, or of
   the six digits alone, gives channels in 0..255, and rgb_to_hex of those
   R, G, B channels gives the string in lower case with its '#', 7 characters. *)
C11_HexRoundTrip ==
    /\ u_op = "hex_to_bgr" => \A c \in 1..3 : u_ret[1][c] \in 0..255
    /\ u_op = "rgb_to_hex" =>
          LET h == u_arg[2]
              with_hash == IF h[1] = "#" THEN h ELSE <<"#">> \o h
          IN  /\ u_ret[1] = ToLower(with_hash)
              /\ Len(u_ret[1]) = 7
              /\ IsLowerHexCode(u_ret[1])

C11_Witness ==
    /\ u_op = "rgb_to_hex"
    /\ u_arg[2] = <<"a", "B", "C", "d", "F", "F">>
    /\ u_ret[1] = <<"#", "a", "b", "c", "d", "f", "f">>

(* ================== claims: GarmentRecolorer, the output ================= *)

(* C12: save_result with a recolored image and a destination some of whose
   parent directories are missing, on a volume that accepts them, creates every
   missing parent directory, writes the file and returns True. *)
C12_SaveCreatesParentDirectories ==
    [][ (SaveResult /\ recolored_image # None /\ out_dirs < MaxParents /\ out_writable) =>
            /\ ret' = RetBool(TRUE)
            /\ out_dirs' = MaxParents
            /\ out_made' = MaxParents - out_dirs
            /\ out_exists' ]_vars

C12_Witness ==
    /\ op = "save_result"
    /\ ret = RetBool(TRUE)
    /\ out_made = MaxParents
    /\ out_dirs = MaxParents
    /\ out_exists

(* C13, as claimed: save_result never ends in an exception: it returns True
   only with the file written, and False on every write failure. *)
C13_WriteFailureReturnsFalse ==
    op = "save_result" =>
        /\ ret.tag \in { "True", "False" }
        /\ ret = RetBool(TRUE) => out_exists
        /\ (recolored_image # None /\ ~out_writable) => ret = RetBool(FALSE)

(* C14, as claimed: with an empty target list on a loaded and segmented image
   apply_colors returns False, recolor_garment returns None, and neither
   populates or replaces recolored_image. *)
C14_EmptyTargetsFail ==
    [][ /\ (ApplyColors({ << >> }) /\ image # None /\ mask # None) =>
              (ret' = RetBool(FALSE) /\ recolored_image' = recolored_image)
        /\ (RecolorGarmentStep /\ rg_pc = 3 /\ rg_targets[1] = << >>) =>
              (ret' = RetNone /\ recolored_image' = recolored_image) ]_vars

(* C16: no stage mutates an earlier stage's buffer: remove_background and
   apply_colors leave image as it is, apply_colors leaves mask and image_no_bg,
   save_result leaves recolored_image; load_image writes image alone and
   remove_background never writes recolored_image.  The same holds for the
   stages run by recolor_garment.  The loaded image is always the decoded file. *)
C16_StagesKeepEarlierBuffers ==
    /\ [][ /\ LoadImage =>
                (mask' = mask /\ image_no_bg' = image_no_bg /\ recolored_image' = recolored_image)
           /\ RemoveBackground => (image' = image /\ recolored_image' = recolored_image)
           /\ ApplyColors(ProtocolTargets) =>
                (image' = image /\ mask' = mask /\ image_no_bg' = image_no_bg)
           /\ SaveResult =>
                (recolored_image' = recolored_image /\ image' = image /\ mask' = mask
                 /\ image_no_bg' = image_no_bg)
           /\ (RecolorGarmentStep /\ rg_pc = 2) =>
                (image' = image /\ recolored_image' = recolored_image)
           /\ (RecolorGarmentStep /\ rg_pc = 3) =>
                (image' = image /\ mask' = mask /\ image_no_bg' = image_no_bg) ]_vars
    /\ [](image # None => image = garment_file)

C16_Witness ==
    /\ op = "apply_colors"
    /\ ret = RetBool(TRUE)
    /\ image = garment_file
    /\ recolored_image # None
    /\ recolored_image # image
    /\ \E i \in 1..Len(mask) : mask[i] > 0

(* ================= claims: the brightness-to-colour mapping ============== *)

(* C17, as claimed: for N >= 1, _get_color_mapping(b, N) gives every element
   the index 0 when max(b) = min(b) and otherwise the integer part of
   (b_k - min(b)) * (N - 1) / (max(b) - min(b)); every index is in 0..N-1, the
   minimum gets 0 and the maximum N-1; an empty input gives an empty result. *)
C17_IntegerPartOfScaledBrightness ==
    (u_op = "_get_color_mapping" /\ u_arg[2] >= 1) =>
        LET b == u_arg[1]
            N == u_arg[2]
            indices == u_ret[1]
        IN  /\ Len(indices) = Len(b)
            /\ b # << >> =>
                 LET min_b == SeqMin(b)
                     max_b == SeqMax(b)
                 IN  \A k \in 1..Len(b) :
                        /\ indices[k] \in 0..(N - 1)
                        /\ max_b = min_b => indices[k] = 0
                        /\ max_b > min_b =>
                             /\ indices[k] = ((b[k] - min_b) * (N - 1)) \div (max_b - min_b)
                             /\ b[k] = min_b => indices[k] = 0
                             /\ b[k] = max_b => indices[k] = N - 1

(* the palette of the call that has just returned, as HSV colours *)
AppliedPalette ==
    { BGR2HSV(hex_to_bgr(applied_targets[1][j])) : j \in 1..Len(applied_targets[1]) }
(* the colour of the palette whose hue and saturation pixel i was given *)
AppliedColour(i) ==
    CHOOSE t \in AppliedPalette : t[1] = recolored_hsv[i][1] /\ t[2] = recolored_hsv[i][2]
Foreground == { i \in 1..Len(mask) : mask[i] > 0 }

(* C18: darker garment pixels receive darker target colours: for foreground
   pixels p, q with brightness(p) <= brightness(q) the value of the target
   colour applied to p is at most that of the colour applied to q; a foreground
   of uniform brightness receives a target colour of the lowest value. *)
C18_DarkerPixelsDarkerTargets ==
    (Applied /\ applied_targets[1] # << >>) =>
        /\ \A p \in Foreground : \E t \in AppliedPalette :
              t[1] = recolored_hsv[p][1] /\ t[2] = recolored_hsv[p][2]
        /\ \A p, q \in Foreground :
              BGR2HSV(image[p])[3] <= BGR2HSV(image[q])[3]
                  => AppliedColour(p)[3] <= AppliedColour(q)[3]
        /\ (\A p, q \in Foreground : BGR2HSV(image[p])[3] = BGR2HSV(image[q])[3]) =>
              \A p \in Foreground : \A t \in AppliedPalette : AppliedColour(p)[3] <= t[3]

C18_Witness ==
    /\ Applied
    /\ applied_targets[1] = << HexRed, HexNavy >>
    /\ Foreground = { 1, 2 }
    /\ BGR2HSV(image[1])[3] < BGR2HSV(image[2])[3]
    /\ AppliedColour(1) = BGR2HSV(hex_to_bgr(HexNavy))
    /\ AppliedColour(2) = BGR2HSV(hex_to_bgr(HexRed))

(* C19: _hex_colors_to_hsv returns the HSV conversions of its input colours,
   each once (same length, same multiset), in non-decreasing value order,
   colours of equal value in the caller's relative order. *)
C19_SortedStablePermutation ==
    u_op = "_hex_colors_to_hsv" =>
        LET hex_colors == u_arg[1]
            out == u_ret[1]
            n == Len(hex_colors)
            hsv == [ i \in 1..n |-> BGR2HSV(hex_to_bgr(hex_colors[i])) ]
        IN  /\ Len(out) = n
            /\ \A i \in 1..(n - 1) : out[i][3] <= out[i + 1][3]
            /\ \E f \in [ 1..n -> 1..n ] :
                  /\ \A i, j \in 1..n : i # j => f[i] # f[j]
                  /\ \A i \in 1..n : out[i] = hsv[f[i]]
                  /\ \A i, j \in 1..n : (i < j /\ out[i][3] = out[j][3]) => f[i] < f[j]

C19_Witness ==
    /\ u_op = "_hex_colors_to_hsv"
    /\ u_arg[1] = << HexGreen, HexNavy, HexRed >>
    /\ u_ret[1] = << BGR2HSV(hex_to_bgr(HexNavy)), BGR2HSV(hex_to_bgr(HexGreen)),
                     BGR2HSV(hex_to_bgr(HexRed)) >>
    /\ u_ret[1][2][3] = u_ret[1][3][3]
    /\ u_ret[1][2] # u_ret[1][3]

(* ===================== claims: segmentation failure ====================== *)

(* C20: when rembg.remove raises during remove_background the exception does
   not leave the stage: remove_background returns False; inside recolor_garment
   the call then returns None with apply_colors not invoked, and rembg.remove
   has been invoked exactly once in that call. *)
C20_SegmentationFailureAborts ==
    /\ (op = "remove_background" /\ rembg_log # << >> /\ rembg_log[1] = "raise") =>
          (ret = RetBool(FALSE) /\ rembg_log = << "raise" >>)
    /\ op \in { "remove_background", "recolor_garment" } => ret.tag # "raise"
    /\ op = "recolor_garment" => Len(rembg_log) <= 1
    /\ (op = "recolor_garment" /\ rembg_log # << >> /\ rembg_log[1] = "raise") =>
          /\ rg_pc = 0
          /\ ret = RetNone
          /\ rg_trace = << << "load_image", TRUE >>, << "remove_background", FALSE >> >>
    /\ (op = "recolor_garment" /\ Len(rg_trace) >= 2 /\ rg_trace[2][2] = FALSE) =>
          rembg_log = << "raise" >>

C20_Witness ==
    /\ op = "recolor_garment"
    /\ rg_pc = 0
    /\ ret = RetNone
    /\ rembg_log = << "raise" >>
    /\ rg_trace = << << "load_image", TRUE >>, << "remove_background", FALSE >> >>
    /\ recolored_image = None

(* ========================= claims: the HTTP layer ======================== *)

(* the temporary files a handler is using: its input file from its creation to
   the cleanup, its output file from its creation to its unlink *)
InUse(r) ==
    (IF requests[r].pc \in { "write", "pipeline", "create_output", "save", "read_output",
                             "unlink_output", "cleanup" }
     THEN { requests[r].temp_path } ELSE { })
    \cup
    (IF requests[r].pc \in { "save", "read_output", "unlink_output" }
     THEN { requests[r].output_path } ELSE { })

(* the image files recolouring a request's own upload with its own colours can give *)
OwnRecolorings(req) ==
    { ImageFile(rc.recolored_image) :
        rc \in { o \in RecolorerOutcomesOf(IF req.file.valid THEN req.file.pixels ELSE None,
                                          req.color_list) : o.failed = "" } }

(* C15: under any interleaving of extract and recolor requests every request
   has its own recolorer and its own temporary input and output files: no file
   in use is shared with another request or removed by one, the input file
   holds the request's own upload, the recolorer's buffers are computed from it,
   and the response is computed from the request's own upload and colours. *)
C15_RequestsIsolated ==
    \A r \in DOMAIN requests :
        LET req == requests[r]
        IN  /\ \A name \in InUse(r) : tmp_fs[name] # None
            /\ \A q \in DOMAIN requests \ { r } : InUse(r) \cap InUse(q) = { }
            /\ req.pc \in { "pipeline", "create_output", "save", "read_output",
                            "unlink_output", "cleanup" }
                  => tmp_fs[req.temp_path] = << req.file >>
            /\ req.recolorer.image # None => req.recolorer.image = req.file.pixels
            /\ req.recolorer.recolored_image # None =>
                  req.recolorer.recolored_image =
                      cvtColor_HSV2BGR(RecoloredHsv(req.file.pixels, req.recolorer.mask,
                                                    req.color_list))
            /\ req.pc \in { "save", "read_output", "unlink_output" } =>
                  tmp_fs[req.output_path][1] \in
                      { EmptyFile, ImageFile(req.recolorer.recolored_image) }
            /\ req.image_data # None =>
                  req.image_data[1] \in { EmptyFile, ImageFile(req.recolorer.recolored_image) }
            /\ (req.response.status = 200 /\ req.endpoint = "extract") =>
                  RetValue(req.response.body[1]) \in
                      ExtractorOutcomesOf(IF req.file.valid THEN req.file.pixels ELSE None,
                                          req.n_colors)
            /\ (req.response.status = 200 /\ req.endpoint = "recolor") =>
                  req.response.body[1] \in { EmptyFile } \cup OwnRecolorings(req)
            /\ req.response.status # 500
            /\ (req.response.status = 400 /\ req.file.valid) =>
                  /\ req.endpoint = "recolor"
                  /\ req.pc = "cleanup" => req.recolorer.failed = "remove_background"

C15_Witness ==
    /\ requests[1].endpoint = "recolor"
    /\ requests[1].pc = "read_output"
    /\ tmp_fs[requests[1].output_path] = << ImageFile(requests[1].recolorer.recolored_image) >>
    /\ requests[2].endpoint = "recolor"
    /\ requests[2].pc = "save"
    /\ requests[2].file # requests[1].file
    /\ requests[2].recolorer.recolored_image # requests[1].recolorer.recolored_image
    /\ tmp_fs[requests[2].temp_path] = << requests[2].file >>

(* ================= claims: the mask and the segmented image ============== *)

(* C21: mask is None or the alpha (fourth) channel of the current image_no_bg,
   pixel for pixel and of the same size; mask is never populated while
   image_no_bg is None; a remove_background that returns False, called
   directly or by recolor_garment, leaves both as they were. *)
C21_MaskIsAlphaOfSegmentedImage ==
    /\ [](mask # None =>
            /\ image_no_bg # None
            /\ Len(mask) = Len(image_no_bg)
            /\ \A i \in 1..Len(mask) : mask[i] = image_no_bg[i][4])
    /\ [](image_no_bg = None => mask = None)
    /\ [][ /\ (RemoveBackground /\ ret' = RetBool(FALSE)) =>
                (image_no_bg' = image_no_bg /\ mask' = mask)
           /\ (RecolorGarmentStep /\ rg_pc = 2 /\ ret' = RetNone) =>
                (image_no_bg' = image_no_bg /\ mask' = mask) ]_vars

C21_Witness ==
    /\ op = "remove_background"
    /\ ret = RetBool(FALSE)
    /\ rembg_log = << "raise" >>
    /\ image # None
    /\ mask = << 255, 0 >>
    /\ image_no_bg = << <<0, 0, 0, 255>>, <<0, 1, 255, 0>> >>

(* ===================== claims: the order of the palette ================== *)

(* the cluster label whose centre gave the hex code at position i of the palette *)
LabelAt(km, palette, i) ==
    CHOOSE l \in 0..(Len(km.cluster_centers_) - 1) :
        rgb_to_hex(AsInt(km.cluster_centers_[l + 1])) = palette.hex_codes[i]

(* C22, as claimed: _sort_by_frequency places clusters of equal pixel count in
   ascending cluster-label order, for every number of clusters and every
   assignment of counts. *)
C22_TiesInLabelOrder ==
    u_op = "_sort_by_frequency" =>
        LET km == u_arg[1]
            palette == u_ret[1]
        IN  \A i, j \in 1..Len(palette.counts) :
                (i < j /\ palette.counts[i] = palette.counts[j])
                    => LabelAt(km, palette, i) < LabelAt(km, palette, j)

(* ================ claims: extractor stages out of order ================== *)

(* C23, as claimed: an extractor stage invoked before its prerequisite returns
   a failure value and does not raise: convert_bgr_to_rgb with no image loaded
   returns False and leaves image_rgb None, and _reshape_for_clustering with no
   converted image returns a failure value as well. *)
C23_StagesReturnFailureValues ==
    /\ (ex_op = "convert_bgr_to_rgb" /\ ex_image = None) =>
          (ex_ret = RetBool(FALSE) /\ image_rgb = None)
    /\ (ex_op = "_reshape_for_clustering" /\ image_rgb = None) =>
          ex_ret.tag \in { "False", "None" }
    /\ ex_op \in { "load_image", "convert_bgr_to_rgb", "_reshape_for_clustering" } =>
          ex_ret.tag # "raise"

(* =================== claims: the recolor endpoint ======================== *)

(* C24, as claimed: in the recolor endpoint a parsed colour list that is empty
   or has an entry other than '#' and six hex digits is rejected before the
   pipeline: the request ends with an error, no GarmentRecolorer is
   constructed, no temporary file is created, no pipeline stage is invoked. *)
C24_InvalidColoursRejectedFirst ==
    \A r \in DOMAIN requests :
        LET req == requests[r]
            parsed == ParseColors(req.colors)
            invalid ==
                \/ parsed.color_list = << >>
                \/ \E i \in 1..Len(parsed.color_list) : ~IsHexColor(parsed.color_list[i])
        IN  (req.endpoint = "recolor" /\ ~parsed.raised /\ invalid) =>
                /\ req.pc \in { "receive", "done" }
                /\ req.pc = "done" => req.response.status = 400
                /\ req.temp_path = 0
                /\ req.output_path = 0
                /\ req.recolorer = NoRecolorer
                /\ Existing = { }

(* C25, as claimed: in the recolor endpoint a failed save is not answered as a
   result: when save_result returned False for the output file the response
   is not a success. *)
C25_FailedSaveNotSurfaced ==
    \A r \in DOMAIN requests :
        requests[r].save_returned = "False" => requests[r].response.status # 200

(* ================= claims: a failed run after a successful one =========== *)

(* C26, as claimed: once recolor_garment has returned None no recolored image
   is available: recolored_image is None, and a save_result that follows
   returns False and writes nothing. *)
C26_FailedRunLeavesNoImage ==
    /\ []((op = "recolor_garment" /\ rg_pc = 0 /\ ret = RetNone) => recolored_image = None)
    /\ [][ (SaveResult /\ op = "recolor_garment" /\ ret = RetNone) =>
              (ret' = RetBool(FALSE) /\ out_exists' = out_exists) ]_vars

(* ================== claims: the extractor's palette fields =============== *)

RECURSIVE SeqSum(_)
SeqSum(q) == IF q = << >> THEN 0 ELSE Head(q) + SeqSum(Tail(q))

(* C27: hex_codes and counts are both None or both populated and of the same
   length; when populated every count is positive and the counts add up to the
   number of pixels of the photo that was clustered. *)
C27_CountsCoverThePhoto ==
    /\ hex_codes = None <=> counts = None
    /\ counts # None =>
          /\ Len(hex_codes) = Len(counts)
          /\ Len(counts) >= 1
          /\ \A i \in 1..Len(counts) : counts[i] > 0
          /\ SeqSum(counts) = Len(yarn_file)

C27_Witness ==
    /\ ex_op = "load_image"
    /\ ex_ret = RetBool(FALSE)
    /\ ex_image = None
    /\ Len(yarn_file) = 3
    /\ counts = << 2, 1 >>
    /\ Len(hex_codes) = 2

(* C28: with N >= 2 colours and brightness values that are not all equal, the
   top bucket N-1 goes to exactly the values equal to the maximum: every lower
   value gets an index below N-1. *)
C28_TopBucketIsTheMaximum ==
    (u_op = "_get_color_mapping" /\ u_arg[2] >= 2 /\ u_arg[1] # << >>) =>
        LET b == u_arg[1]
            N == u_arg[2]
            indices == u_ret[1]
        IN  SeqMax(b) > SeqMin(b) =>
                \A k \in 1..Len(b) :
                    /\ indices[k] = N - 1 <=> b[k] = SeqMax(b)
                    /\ b[k] < SeqMax(b) => indices[k] < N - 1

C28_Witness ==
    /\ u_op = "_get_color_mapping"
    /\ u_arg = << << 0, 254, 255 >>, 23 >>
    /\ u_ret = << << 0, 21, 22 >> >>

(* ================= claims: apply_colors called again ===================== *)

(* C29: what apply_colors leaves in recolored_image is a function of the
   loaded image, the mask and the palette of that call, whatever earlier calls
   left there: after apply_colors(P1), apply_colors(P2) gives what
   apply_colors(P2) alone gives, and apply_colors(P1) again gives the same
   image again.  The same holds for the apply_colors of recolor_garment. *)
C29_ApplyColorsForgetsEarlierCalls ==
    [][ /\ (ApplyColors(ProtocolTargets) /\ image # None /\ mask # None) =>
              /\ recolored_image' = RecoloredImageFor(applied_targets'[1])
              /\ (applied_targets # None /\ applied_targets' = applied_targets) =>
                    recolored_image' = recolored_image
        /\ (RecolorGarmentStep /\ rg_pc = 3 /\ image # None /\ mask # None) =>
              recolored_image' = RecoloredImageFor(rg_targets[1]) ]_vars

(* apply_colors has succeeded on a recolorer whose earlier result was saved *)
C29_Witness ==
    /\ op = "apply_colors"
    /\ ret = RetBool(TRUE)
    /\ out_exists
    /\ applied_targets = << << HexGreen, HexNavy >> >>
    /\ Len(image) = 2
    /\ \A i \in 1..Len(mask) : mask[i] > 0
    /\ recolored_image = RecoloredImageFor(<< HexGreen, HexNavy >>)
    /\ recolored_image # RecoloredImageFor(<< HexRed >>)
    /\ recolored_image # image

(* ================ claims: the temporary input file ======================= *)

(* the places of a handler at which its temporary input file exists *)
HoldsInputFile(req) ==
    req.pc \in { "write", "pipeline", "create_output", "save", "read_output",
                 "unlink_output", "cleanup" }

(* C30: in both endpoints, once the upload is in a temporary input file the
   request finishes only through the cleanup, which removes that file: after a
   success, after an HTTP 400 of the pipeline and after an exception raised in
   it.  A request that finishes earlier was refused before any file existed. *)
C30_InputFileRemoved ==
    /\ [](\A r \in DOMAIN requests :
            /\ HoldsInputFile(requests[r]) =>
                  (requests[r].temp_path # 0 /\ tmp_fs[requests[r].temp_path] # None)
            /\ requests[r].pc = "done" =>
                  (requests[r].response.status # 0 /\ requests[r].temp_path = 0))
    /\ [][ \A r \in DOMAIN requests :
              (requests[r].pc # "done" /\ requests'[r].pc = "done") =>
                  \/ /\ requests[r].pc = "receive"
                     /\ requests'[r].response.status \in { 400, 413 }
                     /\ tmp_fs' = tmp_fs
                  \/ /\ requests[r].pc = "cleanup"
                     /\ requests[r].response.status \in { 200, 400, 500 }
                     /\ tmp_fs[requests[r].temp_path] # None
                     /\ tmp_fs'[requests[r].temp_path] = None ]_vars

(* an extraction that raised in the pipeline (more colours asked for than the
   photo has pixels) has finished, and no temporary file is left *)
C30_Witness ==
    /\ requests[1].endpoint = "extract"
    /\ requests[1].file.valid
    /\ requests[1].n_colors = 2
    /\ requests[1].pc = "done"
    /\ requests[1].response.status = 500
    /\ Existing = { }

====
